---- MODULE Spec2Model ----
(***************************************************************************)
(* A model of class catalog of src/catalog.py: the astropy table behind a  *)
(* catalog object, the operations that mutate it (add_field, add_fields,   *)
(* reject_sources_with, reject_sources_other_than, transform_filters,      *)
(* download_catalog), the cross-matching of two catalogs (match_with) and   *)
(* its files (read_ldac, write_database, read_database).                   *)
(*                                                                         *)
(* Conventions.  Magnitudes are integers in units of 0.01 mag.  Row and    *)
(* column positions are 1-based (Python's are 0-based).  A string such as  *)
(* the catalog name is a sequence of tokens, so that the code's substring  *)
(* test  'SDSS' in self.catalogname  is a membership test on the tokens.   *)
(* A call that raises leaves the name of the exception in ret[o].raised.   *)
(* A floating-point value is the integer it stands for together with the  *)
(* dtype of its column; times and other header values are strings.         *)
(***************************************************************************)
EXTENDS Integers, Sequences, FiniteSets, TLC

VARIABLES
    cat,    \* cat[o]: the catalog object o (its attributes)
    ret,    \* ret[o]: the outcome of the last call made on object o
    mres,   \* the outcome of the last match_with call (this against other)
    fit,    \* the residuals the last self-calibrated fit computed
    disk    \* the file the last write left behind

vars == <<cat, ret, mres, fit, disk>>

\* The largest number of rows a query returns.
MaxRows == 2

Objs == {"this", "other"}

(***************************************************************************)
(* numpy / astropy primitives the code relies on                           *)
(***************************************************************************)

SeqsUpTo(S, n) == UNION {[1..k -> S] : k \in 0..n}

\* np.where(mask)[0]: the positions at which a boolean array is true, ascending
RECURSIVE np_where(_)
np_where(mask) ==
    IF mask = <<>> THEN <<>>
    ELSE LET n == Len(mask)
             r == np_where(SubSeq(mask, 1, n - 1))
         IN  IF mask[n] THEN Append(r, n) ELSE r

\* ~condition on a boolean array
np_invert(mask) == [i \in DOMAIN mask |-> ~mask[i]]

\* array[idx] for a list of positions idx
Take(vals, idx) == [k \in 1..Len(idx) |-> vals[idx[k]]]

\* astropy.table.Column(array, name=..., format=...)
Column(name, dtype, format, vals) ==
    [name |-> name, dtype |-> dtype, format |-> format, vals |-> vals]

\* len(table): the length of its columns, 0 for a table without columns
Table_len(cols) == IF cols = <<>> THEN 0 ELSE Len(cols[1].vals)

\* table.columns (the names, as tested by  name in self.fields)
colnames(cols) == {cols[i].name : i \in 1..Len(cols)}

\* table[name]: the column of that name (the caller has checked it is there)
getcol(cols, name) == cols[CHOOSE i \in 1..Len(cols) : cols[i].name = name]

\* table[idx] for a list of row positions: every column is cut to those rows
Table_rows(cols, idx) ==
    [i \in 1..Len(cols) |-> [cols[i] EXCEPT !.vals = Take(@, idx)]]

\* table[mask] for a boolean array over the rows
Table_mask(cols, mask) == Table_rows(cols, np_where(mask))

\* a table that would take a column of any length
add_column_raises_nolen(cols, col) == col.name \in colnames(cols)

\* Table.add_column refuses (ValueError) a column whose name is taken or whose
\* length differs from the table's; a table without columns takes any length.
add_column_raises(cols, col) ==
    \/ col.name \in colnames(cols)
    \/ cols # <<>> /\ Len(col.vals) # Table_len(cols)

(***************************************************************************)
(* The catalog object                                                      *)
(***************************************************************************)

\* self.data is None until a table is loaded or created
NoTable == [present |-> FALSE, cols |-> <<>>]

Tbl(cols) == [present |-> TRUE, cols |-> cols]

\* Python's None, where a number or a string is expected
None == "<None>"

\* self.magsystem is no attribute of a new object: __init__ sets magsys only
Unset == "<unset>"

\* catalog.__init__
catalog(catalogname) ==
    [data |-> NoTable, catalogname |-> catalogname,
     obstime |-> <<None, None>>, obj |-> None, origin |-> "",
     history |-> <<>>, magsys |-> "", magsystem |-> Unset]

\* The outcome of a call: what it returned (isNone: it returned None), or the
\* exception it raised.
Outcome(op, raised, isNone, value) ==
    [op |-> op, raised |-> raised, isNone |-> isNone, value |-> value]

NoCall == Outcome("none", "none", TRUE, 0)

\* no file has been written
NoFile == [kind |-> "none"]

\* no fit has been run
NoFit == [ident |-> <<>>, resid |-> <<>>]

Raised(c, op, exc) == [obj |-> c, out |-> Outcome(op, exc, TRUE, 0)]

\* catalog.shape: len(None) raises TypeError, which the property's
\* except AttributeError does not catch
shape_raises(c) == ~c.data.present

\* a variant with the number of fields first
shape_fields_first(c) == <<Len(c.data.cols), Table_len(c.data.cols)>>

\* catalog.shape: (number of sources, number of fields)
shape(c) == <<Table_len(c.data.cols), Len(c.data.cols)>>

(***************************************************************************)
(* Row filtering                                                           *)
(***************************************************************************)

\* a variant that keeps the rows the condition does not hold for
reject_sources_other_than_keepnone(c, condition) ==
    IF shape_raises(c)
    THEN Raised(c, "reject_sources_other_than", "TypeError")
    ELSE LET n_raw == shape(c)[1]
             data  == Tbl(Table_mask(c.data.cols, np_invert(condition)))
         IN  [obj |-> [c EXCEPT !.data = data],
              out |-> Outcome("reject_sources_other_than", "none", FALSE,
                              Table_len(data.cols))]

\* reject_sources_other_than: the rows the condition holds for are kept;
\* returns len(self.data), the number of rows left
reject_sources_other_than(c, condition) ==
    IF shape_raises(c)
    THEN Raised(c, "reject_sources_other_than", "TypeError")
    ELSE LET n_raw == shape(c)[1]
             data  == Tbl(Table_mask(c.data.cols, condition))
         IN  [obj |-> [c EXCEPT !.data = data],
              out |-> Outcome("reject_sources_other_than", "none", FALSE,
                              Table_len(data.cols))]

\* a variant that returns the number of rows left
reject_sources_with_left(c, condition) ==
    IF shape_raises(c)
    THEN Raised(c, "reject_sources_with", "TypeError")
    ELSE LET n_raw == shape(c)[1]
             data  == Tbl(Table_mask(c.data.cols, np_invert(condition)))
         IN  [obj |-> [c EXCEPT !.data = data],
              out |-> Outcome("reject_sources_with", "none", FALSE,
                              Table_len(data.cols))]

\* a variant that also writes the number of rows dropped to the history
reject_sources_with_logged(c, condition) ==
    IF shape_raises(c)
    THEN Raised(c, "reject_sources_with", "TypeError")
    ELSE LET n_raw == shape(c)[1]
             data  == Tbl(Table_mask(c.data.cols, np_invert(condition)))
         IN  [obj |-> [c EXCEPT !.data = data,
                                !.history = Append(@,
                                    [what |-> "rejected",
                                     n |-> n_raw - Table_len(data.cols),
                                     band |-> ""])],
              out |-> Outcome("reject_sources_with", "none", FALSE,
                              n_raw - Table_len(data.cols))]

\* reject_sources_with: the rows the condition holds for are dropped;
\* returns n_raw - len(self.data), the number of rows dropped
reject_sources_with(c, condition) ==
    IF shape_raises(c)
    THEN Raised(c, "reject_sources_with", "TypeError")
    ELSE LET n_raw == shape(c)[1]
             data  == Tbl(Table_mask(c.data.cols, np_invert(condition)))
         IN  [obj |-> [c EXCEPT !.data = data],
              out |-> Outcome("reject_sources_with", "none", FALSE,
                              n_raw - Table_len(data.cols))]

(***************************************************************************)
(* Adding columns                                                          *)
(***************************************************************************)

\* add_field: self.data.add_column(...), whose result (None) is returned; on an
\* object without a table the attribute lookup on None raises AttributeError
add_field(c, field_name, field_array, field_type) ==
    LET col == Column(field_name, "float64", field_type, field_array)
    IN  IF ~c.data.present
        THEN Raised(c, "add_field", "AttributeError")
        ELSE IF add_column_raises(c.data.cols, col)
        THEN Raised(c, "add_field", "ValueError")
        ELSE [obj |-> [c EXCEPT !.data = Tbl(Append(c.data.cols, col))],
              out |-> Outcome("add_field", "none", TRUE, 0)]

\* the loop of add_fields from position i on: the columns are added one by
\* one, and the first one the table refuses ends the loop with its exception
RECURSIVE add_fields_loop(_, _, _, _, _)
add_fields_loop(cols, i, field_names, field_arrays, field_types) ==
    IF i > Len(field_names) THEN [cols |-> cols, raised |-> "none"]
    ELSE LET col == Column(field_names[i], "float64", field_types[i],
                           field_arrays[i])
         IN  IF add_column_raises(cols, col)
             THEN [cols |-> cols, raised |-> "ValueError"]
             ELSE add_fields_loop(Append(cols, col), i + 1,
                                  field_names, field_arrays, field_types)

add_fields(c, field_names, field_arrays, field_types) ==
    IF ~(Len(field_names) = Len(field_arrays)
         /\ Len(field_arrays) = Len(field_types))
    THEN Raised(c, "add_fields", "AssertionError")
    ELSE LET start == IF c.data.present THEN c.data.cols ELSE <<>>
             r     == add_fields_loop(start, 1, field_names, field_arrays,
                                      field_types)
             obj   == [c EXCEPT !.data = Tbl(r.cols)]
         IN  IF r.raised # "none"
             THEN [obj |-> obj,
                   out |-> Outcome("add_fields", r.raised, TRUE, 0)]
             ELSE [obj |-> obj,
                   out |-> Outcome("add_fields", "none", FALSE,
                                   Len(field_arrays))]

(***************************************************************************)
(* download_catalog: the query of a survey and its canonical layout        *)
(***************************************************************************)

\* the catalog names download_catalog knows (TGAS is left out: its query
\* always raises), and "mycat", a name it does not know
CatalogNames ==
    {<<"SDSS", "-R9">>, <<"GAIA">>, <<"2MASS">>, <<"PANSTARRS">>,
     <<"APASS", "9">>, <<"URAT", "-1">>, <<"mycat">>}

\* substr in self.catalogname
InName(substr, catalogname) ==
    \E i \in 1..Len(catalogname) : catalogname[i] = substr

KnownName(catalogname) == catalogname \in CatalogNames \ {<<"mycat">>}

\* the photometric columns of each survey after the renaming of
\* download_catalog, in the order of the query
PhotCols(catalogname) ==
    CASE catalogname = <<"SDSS", "-R9">> ->
           <<"umag", "e_umag", "gmag", "e_gmag", "rmag", "e_rmag",
             "imag", "e_imag", "zmag", "e_zmag">>
      [] catalogname = <<"GAIA">> ->
           <<"Gmag", "e_Gmag", "BPmag", "e_BPmag", "RPmag">>
      [] catalogname = <<"2MASS">> ->
           <<"Jmag", "e_Jmag", "Hmag", "e_Hmag", "Ksmag", "e_Ksmag">>
      [] catalogname = <<"PANSTARRS">> ->
           <<"gp1mag", "e_gp1mag", "rp1mag", "e_rp1mag", "ip1mag",
             "e_ip1mag", "zp1mag", "e_zp1mag", "yp1mag", "e_yp1mag">>
      [] catalogname = <<"APASS", "9">> ->
           <<"Vmag", "e_Vmag", "Bmag", "e_Bmag", "gmag", "e_gmag",
             "rmag", "e_rmag", "imag", "e_imag">>
      [] catalogname = <<"URAT", "-1">> -> <<"mag", "e_mag">>
      [] OTHER -> <<>>

\* The rows a survey may return: for each survey a few sources, inside and
\* outside the colour and magnitude ranges its transformations accept, as
\* the values of PhotCols in 0.01 mag.
RawRows(catalogname) ==
    CASE catalogname = <<"SDSS", "-R9">> ->
           {<<1704, 2, 1600, 2, 1550, 2, 1530, 2, 1518, 2>>,  \* inside C&G
            <<1704, 2, 1600, 2, 1600, 2, 1600, 2, 1598, 2>>}  \* g-r = 0
      [] catalogname = <<"GAIA">> ->
           {<<1500, 1, 1600, 1, 1500>>,    \* BP-RP = 1.0
            <<1500, 1, 1510, 1, 1500>>}    \* BP-RP = 0.1
      [] catalogname = <<"2MASS">> ->
           {<<1500, 2, 1450, 2, 1440, 2>>,  \* J-H = 0.5
            <<1500, 2, 1350, 2, 1340, 2>>}  \* J-H = 1.5
      [] catalogname = <<"PANSTARRS">> ->
           {<<1600, 2, 1550, 2, 1530, 2, 1520, 2, 1510, 2>>,
            <<1600, 2, 1550, 5, 1530, 2, 1520, 2, 1510, 2>>} \* e_r = 0.05
      [] catalogname = <<"APASS", "9">> ->
           {<<1580, 2, 1620, 2, 1600, 2, 1550, 2, 1530, 2>>,  \* r-i = 0.2
            <<1580, 2, 1620, 2, 1600, 2, 1550, 2, 1550, 2>>}  \* r-i = 0
      [] catalogname = <<"URAT", "-1">> -> {<<1500, 2>>}
      [] OTHER -> {}

\* the table of a query result: ident, the position columns and the
\* photometric columns.  A row holds the values of the photometric columns
\* and, after them, its right ascension when that is not 10 degrees.
QueryTable(catalogname, raw) ==
    LET n    == Len(raw)
        pc   == PhotCols(catalogname)
        ra(k) == IF Len(raw[k]) > Len(pc) THEN raw[k][Len(pc) + 1] ELSE 10
        head == << Column("ident", "int64", "", [k \in 1..n |-> k]),
                   Column("ra.deg", "float64", "", [k \in 1..n |-> ra(k)]),
                   Column("dec.deg", "float64", "", [k \in 1..n |-> 0]),
                   Column("e_ra.deg", "float64", "", [k \in 1..n |-> 0]),
                   Column("e_dec.deg", "float64", "", [k \in 1..n |-> 0]) >>
    IN  head \o [j \in 1..Len(pc) |->
                   Column(pc[j], "float64", "", [k \in 1..n |-> raw[k][j]])]

\* column + delta, in place
ColumnAdd(cols, name, delta) ==
    [i \in 1..Len(cols) |->
        IF cols[i].name = name
        THEN [cols[i] EXCEPT !.vals = [k \in DOMAIN @ |-> @[k] + delta]]
        ELSE cols[i]]

\* the per-survey treatment of the query result: the clip of PANSTARRS to
\* e_rp1mag <= 0.03 and the correction of SDSS u and z to the AB system
Canonical(catalogname, cols) ==
    CASE catalogname = <<"PANSTARRS">> ->
           Table_mask(cols, [k \in 1..Table_len(cols) |->
                                getcol(cols, "e_rp1mag").vals[k] <= 3])
      [] catalogname = <<"SDSS", "-R9">> ->
           ColumnAdd(ColumnAdd(cols, "umag", -4), "zmag", 2)
      [] OTHER -> cols

HistoryEntry(what, n, band) == [what |-> what, n |-> n, band |-> band]

\* download_catalog.  raw: the rows the server returns (none: the query
\* result is empty and indexing it raises IndexError, which is caught);
\* magsys: the entry of _pp_conf.allcatalogs_magsys for the catalog name.
download_catalog(c, raw, magsys) ==
    IF ~KnownName(c.catalogname)
    THEN \* no branch is taken; len(self.data) is evaluated next
         IF ~c.data.present
         THEN Raised(c, "download_catalog", "TypeError")
         ELSE \* history is set, then the lookup of the name in
              \* allcatalogs_magsys (or of the column e_ra.deg) raises
              [obj |-> [c EXCEPT !.history =
                           <<HistoryEntry("downloaded",
                                          Table_len(c.data.cols), "")>>],
               out |-> Outcome("download_catalog", "KeyError", TRUE, 0)]
    ELSE IF raw = <<>>
    THEN [obj |-> c,
          out |-> Outcome("download_catalog", "none", FALSE, 0)]
    ELSE LET cols == Canonical(c.catalogname, QueryTable(c.catalogname, raw))
             n    == Table_len(cols)
         IN  [obj |-> [c EXCEPT !.data = Tbl(cols),
                                !.history = <<HistoryEntry("downloaded", n, "")>>,
                                !.magsystem = magsys],
              out |-> Outcome("download_catalog", "none", FALSE, n)]

(***************************************************************************)
(* transform_filters                                                       *)
(***************************************************************************)

\* x * (milli / 1000), rounded down: the colour terms of the recipes
Mul(x, milli) == (x * milli) \div 1000

\* np.sqrt, rounded down
ISqrt(n) == CHOOSE r \in 0..n : r * r <= n /\ (r + 1) * (r + 1) > n

\* the value 99 (mag) the recipes give a source they do not transform
Sentinel == 99 * 100

HasCols(c, names) == names \subseteq colnames(c.data.cols)

V(c, name, k) == getcol(c.data.cols, name).vals[k]

\* the lines that end every recipe: the name is marked, the history
\* extended and the magnitude system set, unless the name is marked already
MarkTransformed(c, band, magsystem) ==
    IF InName("_transformed", c.catalogname) THEN c
    ELSE [c EXCEPT !.catalogname = Append(@, "_transformed"),
                   !.history = Append(@, HistoryEntry("transformed",
                                   Table_len(c.data.cols), band)),
                   !.magsystem = magsystem]

\* new columns are appended one by one (add_field or Table.add_column), then
\* the rows idx are kept, the catalog is marked and its length returned; a
\* column the table refuses ends the call with the columns before it added
Derive(c, names, arrays, idx, band, magsystem) ==
    LET r == add_fields_loop(c.data.cols, 1, names, arrays,
                             [j \in 1..Len(names) |-> "D"])
    IN  IF r.raised # "none"
        THEN [obj |-> [c EXCEPT !.data = Tbl(r.cols)],
              out |-> Outcome("transform_filters", r.raised, TRUE, 0)]
        ELSE LET d == [c EXCEPT !.data = Tbl(Table_rows(r.cols, idx))]
                 m == MarkTransformed(d, band, magsystem)
             IN  [obj |-> m,
                  out |-> Outcome("transform_filters", "none", FALSE,
                                  shape(m)[1])]

Returns(c, n) ==
    [obj |-> c, out |-> Outcome("transform_filters", "none", FALSE, n)]

AllRows(c) == [k \in 1..Table_len(c.data.cols) |-> k]

\* the sources that meet the requirements of Chonis & Gaskell 2008
keep_idc(c) ==
    LET g(k) == V(c, "gmag", k)
        r(k) == V(c, "rmag", k)
        i(k) == V(c, "imag", k)
    IN  [k \in 1..Table_len(c.data.cols) |->
            /\ r(k) - i(k) > 8   /\ r(k) - i(k) < 50
            /\ g(k) - r(k) > 20  /\ g(k) - r(k) < 140
            /\ g(k) >= 1450 /\ g(k) < 1950
            /\ r(k) >= 1450 /\ r(k) < 1950
            /\ i(k) >= 1450 /\ i(k) < 1950]

\* the sum of the elements of a sequence of numbers
RECURSIVE np_sum(_)
np_sum(a) == IF a = <<>> THEN 0 ELSE a[1] + np_sum(Tail(a))

\* a variant that removes a residual equal to three standard deviations
remove_ge(resid) ==
    LET m  == Len(resid)
        s1 == np_sum(resid)
        s2 == np_sum([p \in 1..m |-> resid[p] * resid[p]])
    IN  {p \in 1..m : resid[p] * resid[p] * m * m >= 9 * (m * s2 - s1 * s1)}

\* np.where(resid > 3.*np.std(resid))[0]: the positions, in the array of the
\* pre-filtered sources, of the residuals above three standard deviations.
\* resid >= 0 and std^2 = s2/m - (s1/m)^2, so the test is compared squared.
remove_of(resid) ==
    LET m  == Len(resid)
        s1 == np_sum(resid)
        s2 == np_sum([p \in 1..m |-> resid[p] * resid[p]])
    IN  {p \in 1..m : resid[p] * resid[p] * m * m > 9 * (m * s2 - s1 * s1)}

\* SDSS (SkyMapper) to BVRI, Chonis & Gaskell 2008.  remove: the positions,
\* in the array of the pre-filtered sources, of the residuals above 3 sigma.
SDSS_BVRI(c, targetfilter, remove) ==
    IF ~HasCols(c, {"gmag", "rmag", "imag", "e_gmag", "e_rmag", "e_imag",
                    "umag", "e_umag"})
    THEN Raised(c, "transform_filters", "KeyError")
    ELSE
    LET n  == Table_len(c.data.cols)
        g(k) == V(c, "gmag", k)
        r(k) == V(c, "rmag", k)
        i(k) == V(c, "imag", k)
        filtered == np_where(keep_idc(c))
        keep == SelectSeq(filtered, LAMBDA idx : idx \notin remove)
        mag(k) ==
            CASE targetfilter = "B" -> g(k) + Mul(g(k) - r(k), 327) + 22
              [] targetfilter = "V" -> g(k) - Mul(g(k) - r(k), 587) - 1
              [] targetfilter = "R" -> r(k) - Mul(r(k) - i(k), 272) - 16
              [] OTHER              -> i(k) - Mul(r(k) - i(k), 337) - 37
        err(k) ==
            CASE targetfilter = "B" ->
                   ISqrt(Mul(V(c, "e_gmag", k), 1327) ^ 2
                         + Mul(V(c, "e_rmag", k), 327) ^ 2
                         + Mul(g(k) - r(k), 47) ^ 2 + 3 ^ 2)
              [] targetfilter = "V" ->
                   ISqrt(Mul(V(c, "e_gmag", k), 1587) ^ 2
                         + Mul(V(c, "e_rmag", k), 587) ^ 2
                         + Mul(g(k) - r(k), 22) ^ 2 + 1 ^ 2)
              [] targetfilter = "R" ->
                   ISqrt(Mul(V(c, "e_rmag", k), 728) ^ 2
                         + Mul(V(c, "e_imag", k), 272) ^ 2
                         + Mul(r(k) - i(k), 92) ^ 2 + 2 ^ 2)
              [] OTHER ->
                   ISqrt(Mul(V(c, "e_imag", k), 1337) ^ 2
                         + Mul(V(c, "e_rmag", k), 337) ^ 2
                         + Mul(r(k) - i(k), 191) ^ 2 + 4 ^ 2)
    IN  IF filtered = <<>> THEN Returns(c, 0)
        ELSE IF Len(filtered) < 2
        THEN \* curve_fit refuses to fit two parameters to one point
             Raised(c, "transform_filters", "TypeError")
        ELSE Derive(c, <<"_" \o targetfilter \o "mag",
                         "_e_" \o targetfilter \o "mag">>,
                    << [k \in 1..n |-> mag(k)], [k \in 1..n |-> err(k)] >>,
                    keep, targetfilter, "AB (ugriz), Vega (" \o targetfilter \o ")")

\* URAT / APASS to R, I.  junk: what np.empty holds when the target filter
\* is neither R nor I and the new arrays are never filled.
APASS_RI(c, targetfilter, junk) ==
    IF ~HasCols(c, {"rmag", "imag", "e_rmag", "e_imag"})
    THEN Raised(c, "transform_filters", "KeyError")
    ELSE
    LET n  == Table_len(c.data.cols)
        r(k) == V(c, "rmag", k)
        i(k) == V(c, "imag", k)
        keep_ri == [k \in 1..n |-> r(k) - i(k) > 8 /\ r(k) - i(k) < 50]
        mag(k) ==
            CASE targetfilter = "R" -> r(k) - Mul(r(k) - i(k), 272) - 16
              [] targetfilter = "I" -> i(k) - Mul(r(k) - i(k), 337) - 37
              [] OTHER -> junk
        err(k) ==
            CASE targetfilter = "R" ->
                   ISqrt(Mul(V(c, "e_rmag", k), 728) ^ 2
                         + Mul(V(c, "e_imag", k), 272) ^ 2
                         + Mul(r(k) - i(k), 92) ^ 2 + 2 ^ 2)
              [] targetfilter = "I" ->
                   ISqrt(Mul(V(c, "e_imag", k), 1337) ^ 2
                         + Mul(V(c, "e_rmag", k), 337) ^ 2
                         + Mul(r(k) - i(k), 191) ^ 2 + 4 ^ 2)
              [] OTHER -> junk
    IN  Derive(c, <<"_" \o targetfilter \o "mag",
                    "_e_" \o targetfilter \o "mag">>,
               << [k \in 1..n |-> mag(k)], [k \in 1..n |-> err(k)] >>,
               np_where(keep_ri), targetfilter, "Vega")

\* 2MASS to UKIRT YZJHK, Hodgkin et al. 2009
TwoMASS_UKIRT(c) ==
    IF ~HasCols(c, {"Jmag", "Hmag", "Ksmag", "e_Jmag", "e_Hmag", "e_Ksmag"})
    THEN Raised(c, "transform_filters", "KeyError")
    ELSE
    LET n  == Table_len(c.data.cols)
        J(k) == V(c, "Jmag", k)
        H(k) == V(c, "Hmag", k)
        K(k) == V(c, "Ksmag", k)
        keep(k) == ~(J(k) - H(k) < -10 \/ J(k) - H(k) > 100)
                   /\ ~(J(k) > 1800 \/ H(k) > 1700)
        val(k, x) == IF keep(k) THEN x ELSE Sentinel
        Zmag == [k \in 1..n |-> val(k, J(k) + Mul(J(k) - H(k), 950) + 6)]
        arrays ==
          << [k \in 1..n |-> val(k, J(k) + Mul(J(k) - H(k), 500) + 8)],
             [k \in 1..n |-> val(k, V(c, "e_Jmag", k))],
             Zmag,
             [k \in 1..n |-> val(k, ISqrt(V(c, "e_Jmag", k) ^ 2 + 4 ^ 2))],
             [k \in 1..n |-> val(k, J(k) - Mul(J(k) - H(k), 65))],
             [k \in 1..n |-> val(k, V(c, "e_Jmag", k))],
             [k \in 1..n |-> val(k, H(k) + Mul(J(k) - K(k), 70) - 3)],
             [k \in 1..n |-> val(k, V(c, "e_Hmag", k))],
             [k \in 1..n |-> val(k, K(k) + Mul(J(k) - K(k), 10))],
             [k \in 1..n |-> val(k, V(c, "e_Ksmag", k))] >>
    IN  Derive(c, <<"_Ymag", "_e_Ymag", "_Zmag", "_e_Zmag", "_Jmag",
                    "_e_Jmag", "_Hmag", "_e_Hmag", "_Kmag", "_e_Kmag">>,
               arrays, np_where([k \in 1..n |-> Zmag[k] < Sentinel]),
               "UKIRT YZJHK", "Vega")

\* PANSTARRS to BVRI, Tonry et al. 2012
PANSTARRS_BVRI(c, targetfilter) ==
    IF ~HasCols(c, {"gp1mag", "e_gp1mag", "rp1mag", "e_rp1mag", "ip1mag",
                    "e_ip1mag"})
    THEN Raised(c, "transform_filters", "KeyError")
    ELSE
    LET n  == Table_len(c.data.cols)
        g(k) == V(c, "gp1mag", k)
        r(k) == V(c, "rp1mag", k)
        i(k) == V(c, "ip1mag", k)
        gr(k) == g(k) - r(k)
        sq(k) == (gr(k) * gr(k)) \div 100
        arrays ==
          << [k \in 1..n |-> g(k) + 21 + Mul(gr(k), 556) + Mul(sq(k), 34)],
             [k \in 1..n |-> ISqrt(V(c, "e_gp1mag", k) ^ 2 + 3 ^ 2)],
             [k \in 1..n |-> g(k) + 1 - Mul(gr(k), 536) + Mul(sq(k), 11)],
             [k \in 1..n |-> ISqrt(V(c, "e_gp1mag", k) ^ 2 + 1 ^ 2)],
             [k \in 1..n |-> r(k) - 14 - Mul(gr(k), 108) - Mul(sq(k), 29)],
             [k \in 1..n |-> ISqrt(V(c, "e_rp1mag", k) ^ 2 + 2 ^ 2)],
             [k \in 1..n |-> i(k) - 37 - Mul(gr(k), 136) - Mul(sq(k), 18)],
             [k \in 1..n |-> ISqrt(V(c, "e_ip1mag", k) ^ 2 + 2 ^ 2)] >>
    IN  Derive(c, <<"_Bmag", "_e_Bmag", "_Vmag", "_e_Vmag", "_Rmag",
                    "_e_Rmag", "_Imag", "_e_Imag">>,
               arrays, AllRows(c), targetfilter, "Vega")

\* PANSTARRS to Sloan griz: the recipe reads z and e_z, names the function
\* never binds, so the call ends in NameError before any column is added
PANSTARRS_griz(c, targetfilter) ==
    IF ~HasCols(c, {"gp1mag", "e_gp1mag", "rp1mag", "e_rp1mag", "ip1mag",
                    "e_ip1mag"})
    THEN Raised(c, "transform_filters", "KeyError")
    ELSE Raised(c, "transform_filters", "NameError")

\* SDSS to UKIRT Z, Hewett et al. 2006
SDSS_UKIRT_Z(c) ==
    IF ~HasCols(c, {"zmag", "imag", "e_zmag"})
    THEN Raised(c, "transform_filters", "KeyError")
    ELSE
    LET n  == Table_len(c.data.cols)
        Zmag == [k \in 1..n |->
                   V(c, "zmag", k) - 1
                   + Mul(V(c, "imag", k) - V(c, "zmag", k), 60) - 53]
        r  == add_fields_loop(c.data.cols, 1, <<"_Zmag", "_e_Zmag">>,
                              <<Zmag, [k \in 1..n |-> V(c, "e_zmag", k)]>>,
                              <<"D", "D">>)
    IN  IF r.raised # "none"
        THEN [obj |-> [c EXCEPT !.data = Tbl(r.cols)],
              out |-> Outcome("transform_filters", r.raised, TRUE, 0)]
        ELSE LET cols == Table_mask(r.cols,
                                    [k \in 1..n |-> Zmag[k] < Sentinel])
             IN [obj |-> [c EXCEPT
                     !.data = Tbl(cols),
                     !.catalogname = Append(@, "_transformed"),
                     !.history = Append(@, HistoryEntry("transformed",
                                           Table_len(cols), "UKIRT Z")),
                     !.magsystem = "AB (ugriz), Z_UKIRT (Vega)"],
                 out |-> Outcome("transform_filters", "none", FALSE,
                                 Table_len(cols))]

\* the colour range of the Gaia DR2 recipes: lo < BP-RP < hi
GaiaRange(targetfilter) ==
    CASE targetfilter = "r" -> <<20, 270>>
      [] targetfilter = "i" -> <<0, 450>>
      [] OTHER -> <<-50, 275>>

\* Gaia DR2 to Johnson-Cousins VRI (sloan = FALSE) or to SDSS gri: the rows
\* outside the colour range are dropped first, then the columns are added
GAIA_to(c, targetfilter, sloan) ==
    IF ~HasCols(c, {"BPmag", "RPmag"})
    THEN Raised(c, "transform_filters", "KeyError")
    ELSE
    LET rng  == GaiaRange(targetfilter)
        colormask == [k \in 1..Table_len(c.data.cols) |->
                        /\ V(c, "BPmag", k) - V(c, "RPmag", k) > rng[1]
                        /\ V(c, "BPmag", k) - V(c, "RPmag", k) < rng[2]]
        d  == [c EXCEPT !.data = Tbl(Table_mask(c.data.cols, colormask))]
    IN  IF ~HasCols(c, {"Gmag", "e_Gmag"})
        THEN Raised(d, "transform_filters", "KeyError")
        ELSE
        LET n  == Table_len(d.data.cols)
            g(k) == V(d, "Gmag", k)
            e(k) == V(d, "e_Gmag", k)
            x(k) == V(d, "BPmag", k) - V(d, "RPmag", k)
            sq(k) == (x(k) * x(k)) \div 100
            cu(k) == (sq(k) * x(k)) \div 100
            arrays ==
              IF sloan
              THEN << [k \in 1..n |-> g(k) + 14 - Mul(x(k), 462)
                                      - Mul(sq(k), 252) + Mul(cu(k), 21)],
                      [k \in 1..n |-> ISqrt(e(k) ^ 2 + 16 ^ 2)],
                      [k \in 1..n |-> g(k) - 13 + Mul(x(k), 247)
                                      - Mul(sq(k), 27) - Mul(cu(k), 49)],
                      [k \in 1..n |-> ISqrt(e(k) ^ 2 + 7 ^ 2)],
                      [k \in 1..n |-> g(k) - 30 + Mul(x(k), 647)
                                      - Mul(sq(k), 101)],
                      [k \in 1..n |-> ISqrt(e(k) ^ 2 + 10 ^ 2)] >>
              ELSE << [k \in 1..n |-> g(k) - 2 - Mul(x(k), 7)
                                      - Mul(sq(k), 173)],
                      [k \in 1..n |-> ISqrt(e(k) ^ 2 + 5 ^ 2)],
                      [k \in 1..n |-> g(k) + Mul(x(k), 383)
                                      - Mul(sq(k), 135)],
                      [k \in 1..n |-> ISqrt(e(k) ^ 2 + 5 ^ 2)],
                      [k \in 1..n |-> g(k) - 2 + Mul(x(k), 742)
                                      - Mul(sq(k), 95)],
                      [k \in 1..n |-> ISqrt(e(k) ^ 2 + 5 ^ 2)] >>
        IN  Derive(d,
                   IF sloan
                   THEN <<"_gmag", "_e_gmag", "_rmag", "_e_rmag", "_imag",
                          "_e_imag">>
                   ELSE <<"_Vmag", "_e_Vmag", "_Rmag", "_e_Rmag", "_Imag",
                          "_e_Imag">>,
                   arrays, AllRows(d), targetfilter,
                   IF sloan THEN "AB" ELSE "Vega")

\* a variant that never finds the derived column
already_available_never(c, targetfilter) == FALSE

\* '_'+targetfilter+'mag' in self.fields: the transformation has been done
already_available(c, targetfilter) ==
    ("_" \o targetfilter \o "mag") \in colnames(c.data.cols)

\* transform_filters: the chain of conditions, in the order of the code.
\* Reading self.magsystem on an object that never set it raises
\* AttributeError; Python evaluates  A or B and C and D  from the left and
\* stops as soon as the value is known.
transform_filters(c, targetfilter, remove, junk) ==
    IF ~c.data.present THEN Raised(c, "transform_filters", "TypeError")
    ELSE IF Table_len(c.data.cols) = 0 THEN Returns(c, 0)
    ELSE IF already_available(c, targetfilter)
    THEN Returns(c, shape(c)[1])
    ELSE IF (InName("SDSS", c.catalogname) \/ InName("SkyMapper", c.catalogname))
            /\ targetfilter \in {"B", "V", "R", "I"}
    THEN SDSS_BVRI(c, targetfilter, remove)
    ELSE IF InName("URAT", c.catalogname)
    THEN APASS_RI(c, targetfilter, junk)
    ELSE IF InName("APASS", c.catalogname) /\ targetfilter \in {"R", "I"}
            /\ c.magsystem = Unset
    THEN Raised(c, "transform_filters", "AttributeError")
    ELSE IF InName("APASS", c.catalogname) /\ targetfilter \in {"R", "I"}
            /\ c.magsystem = "Vega"
    THEN APASS_RI(c, targetfilter, junk)
    ELSE IF InName("2MASS", c.catalogname)
            /\ targetfilter \in {"Y", "Z", "J", "H", "K"}
            /\ c.magsystem = Unset
    THEN Raised(c, "transform_filters", "AttributeError")
    ELSE IF InName("2MASS", c.catalogname)
            /\ targetfilter \in {"Y", "Z", "J", "H", "K"}
            /\ c.magsystem = "Vega"
    THEN TwoMASS_UKIRT(c)
    ELSE IF InName("PANSTARRS", c.catalogname)
            /\ targetfilter \in {"B", "V", "R", "I"}
    THEN PANSTARRS_BVRI(c, targetfilter)
    ELSE IF InName("PANSTARRS", c.catalogname)
            /\ targetfilter \in {"g", "r", "i", "z"}
    THEN PANSTARRS_griz(c, targetfilter)
    ELSE IF InName("SDSS", c.catalogname) /\ targetfilter = "Z_UKIRT"
            /\ c.catalogname = <<"AB">>
    THEN SDSS_UKIRT_Z(c)
    ELSE IF InName("GAIA", c.catalogname) /\ targetfilter \in {"V", "R", "I"}
    THEN GAIA_to(c, targetfilter, FALSE)
    ELSE IF InName("GAIA", c.catalogname) /\ targetfilter \in {"g", "r", "i"}
    THEN GAIA_to(c, targetfilter, TRUE)
    ELSE Returns(c, 0)

(***************************************************************************)
(* match_with                                                              *)
(***************************************************************************)

\* not-a-number: a value no coordinate or magnitude of the model takes
NaN == -1

\* the squared distance of two points of the plane
D2(p, q) == (p[1] - q[1]) * (p[1] - q[1]) + (p[2] - q[2]) * (p[2] - q[2])

\* list(zip(catalog[key1].data, catalog[key2].data))
Points(c, keys) ==
    [k \in 1..Table_len(c.data.cols) |-> <<V(c, keys[1], k), V(c, keys[2], k)>>]

\* spatial.KDTree(data) cannot be built from an empty list: the array of no
\* points has one dimension, not two (ValueError)
KDTree_raises(points) == points = <<>>

\* a ball without its boundary
query_ball_tree_strict(A, B, r) ==
    [x \in 1..Len(A) |->
        np_where([j \in 1..Len(B) |-> D2(A[x], B[j]) < r * r])]

\* this_tree.query_ball_tree(other_tree, r): for every point of this, the
\* points of other at distance <= r
query_ball_tree(A, B, r) ==
    [x \in 1..Len(A) |->
        np_where([j \in 1..Len(B) |-> D2(A[x], B[j]) <= r * r])]

\* this_tree.query(B): for every point of B a nearest point of A; which one
\* of several equally near points the tree returns is not specified
query(A, B) ==
    {nn \in [1..Len(B) -> 1..Len(A)] :
        \A j \in 1..Len(B) : \A x \in 1..Len(A) :
            D2(A[nn[j]], B[j]) <= D2(A[x], B[j])}

\* the last position of the minimum
np_argmin_last(a) ==
    CHOOSE i \in 1..Len(a) :
        /\ \A j \in 1..Len(a) : a[i] <= a[j]
        /\ \A j \in (i + 1)..Len(a) : a[j] > a[i]

\* np.argmin: the first position of the minimum
np_argmin(a) ==
    CHOOSE i \in 1..Len(a) :
        /\ \A j \in 1..Len(a) : a[i] <= a[j]
        /\ \A j \in 1..(i - 1) : a[j] > a[i]

\* the index lists of the radius mode: the points of this with exactly one
\* point of other in reach, each with that point
RadiusPairs(A, B, r) ==
    LET match == query_ball_tree(A, B, r)
        indices_this_catalog ==
            np_where([x \in 1..Len(match) |-> Len(match[x]) = 1])
    IN  [k \in 1..Len(indices_this_catalog) |->
            <<indices_this_catalog[k], match[indices_this_catalog[k]][1]>>]

\* the index lists of the nearest-neighbour mode for the assignment nn the
\* tree returned: every point of this some point of other is assigned to,
\* with the nearest of those
NearestPairs(A, B, nn) ==
    LET dist == [j \in 1..Len(B) |-> D2(A[nn[j]], B[j])]
        other_cat_indices(target_idx) ==
            np_where([j \in 1..Len(B) |-> nn[j] = target_idx])
        targets == np_where([x \in 1..Len(A) |->
                                other_cat_indices(x) # <<>>])
        min_idx(x) ==
            LET oci == other_cat_indices(x)
            IN  oci[np_argmin([i \in 1..Len(oci) |-> dist[oci[i]]])]
    IN  [k \in 1..Len(targets) |-> <<targets[k], min_idx(targets[k])>>]

\* check_not_nan: only a value of type np.float_ (64 bit) is tested
check_not_nan(x, dtype) == IF dtype = "float64" THEN x # NaN ELSE TRUE

\* the pairs whose extraction fields are all filled, by check_not_nan
Filled(this, other, indices, extract_this_catalog, extract_other_catalog) ==
    SelectSeq(indices, LAMBDA i :
        /\ \A f \in 1..Len(extract_this_catalog) :
             LET col == getcol(this.data.cols, extract_this_catalog[f])
             IN  check_not_nan(col.vals[i[1]], col.dtype)
        /\ \A f \in 1..Len(extract_other_catalog) :
             LET col == getcol(other.data.cols, extract_other_catalog[f])
             IN  check_not_nan(col.vals[i[2]], col.dtype))

MatchOutcome(raised, mode, tolerance, matched, indices, out_this, out_other) ==
    [called |-> TRUE, raised |-> raised, mode |-> mode,
     tolerance |-> tolerance, matched |-> matched, indices |-> indices,
     output_this_catalog |-> out_this, output_other_catalog |-> out_other]

NoMatch ==
    [called |-> FALSE, raised |-> "none", mode |-> "none", tolerance |-> 0,
     matched |-> <<>>, indices |-> <<>>,
     output_this_catalog |-> <<>>, output_other_catalog |-> <<>>]

MatchRaised(exc, mode, tolerance) ==
    MatchOutcome(exc, mode, tolerance, <<>>, <<>>, <<>>, <<>>)

\* the end of match_with: the pairs are filtered and the fields extracted
Extract(this, other, mode, tolerance, matched, extract_this_catalog, extract_other_catalog) ==
    LET indices == Filled(this, other, matched, extract_this_catalog,
                          extract_other_catalog)
    IN  MatchOutcome("none", mode, tolerance, matched, indices,
            [f \in 1..Len(extract_this_catalog) |->
                Take(getcol(this.data.cols, extract_this_catalog[f]).vals,
                     [k \in 1..Len(indices) |-> indices[k][1]])],
            [f \in 1..Len(extract_other_catalog) |->
                Take(getcol(other.data.cols, extract_other_catalog[f]).vals,
                     [k \in 1..Len(indices) |-> indices[k][2]])])

\* what match_with needs of a catalog before it builds a tree of it
KeysMissing(c, keys) == ~c.data.present \/ ~HasCols(c, {keys[1], keys[2]})

\* match_with.  tolerance: [given, r], given = FALSE for tolerance=None;
\* nn: the answer of this_tree.query, read in the nearest-neighbour mode
match_with(this, other, match_keys_this_catalog, match_keys_other_catalog, extract_this_catalog, extract_other_catalog, tolerance, nn) ==
    LET mode == IF tolerance.given THEN "radius" ELSE "nearest"
        A    == Points(this, match_keys_this_catalog)
        B    == Points(other, match_keys_other_catalog)
    IN  IF KeysMissing(this, match_keys_this_catalog)
        THEN MatchRaised("KeyError", mode, tolerance.r)
        ELSE IF KDTree_raises(A)
        THEN MatchRaised("ValueError", mode, tolerance.r)
        ELSE IF KeysMissing(other, match_keys_other_catalog)
        THEN MatchRaised("KeyError", mode, tolerance.r)
        ELSE IF B = <<>>
        THEN \* radius: KDTree(no points); nearest: query(no points)
             MatchRaised("ValueError", mode, tolerance.r)
        ELSE IF ~HasCols(this, {extract_this_catalog[f] :
                                  f \in 1..Len(extract_this_catalog)})
                \/ ~HasCols(other, {extract_other_catalog[f] :
                                      f \in 1..Len(extract_other_catalog)})
        THEN MatchRaised("KeyError", mode, tolerance.r)
        ELSE Extract(this, other, mode, tolerance.r,
                     IF tolerance.given
                     THEN RadiusPairs(A, B, tolerance.r)
                     ELSE NearestPairs(A, B, nn),
                     extract_this_catalog, extract_other_catalog)

(***************************************************************************)
(* The inputs of the calls                                                 *)
(***************************************************************************)

\* the arrays a caller hands to add_field and add_fields for a catalog: one
\* of the length of its table and one that is two elements longer
Arrays(c) ==
    {[k \in 1..n |-> 0] :
        n \in {Table_len(c.data.cols), Table_len(c.data.cols) + 2}}

\* the lists add_fields is called with: one or two names, arrays and types
BatchNames == {<<"a">>, <<"a", "b">>}

BatchArrays(c) ==
    {<<x>> : x \in Arrays(c)} \cup {<<x, y>> : x, y \in Arrays(c)}

\* a type for every name
BatchTypes(field_names) == {[i \in 1..Len(field_names) |-> "D"]}

\* the boolean arrays over the rows of a catalog
Masks(c) == [1..Table_len(c.data.cols) -> BOOLEAN]

\* the bands transform_filters is asked for: one or two of every recipe
TargetFilters == {"V", "R", "g", "r", "J", "Z_UKIRT"}

\* the residuals a fit may leave, in 0.01 mag
Resids == {0, 5, 10}

\* the residuals of the fit to the pre-filtered sources of a catalog (read by
\* the SDSS recipe only, and only when there are sources to fit)
ResidChoices(c, targetfilter) ==
    IF /\ c.data.present
       /\ InName("SDSS", c.catalogname) \/ InName("SkyMapper", c.catalogname)
       /\ targetfilter \in {"B", "V", "R", "I"}
       /\ HasCols(c, {"gmag", "rmag", "imag"})
    THEN [1..Len(np_where(keep_idc(c))) -> Resids]
    ELSE {<<>>}

\* the positions np.where(resid > 3.*np.std(resid)) may return
RemoveChoices(c, targetfilter) ==
    {remove_of(resid) : resid \in ResidChoices(c, targetfilter)}

\* the content of an array np.empty returned (read by the URAT recipe only)
JunkChoices(c, targetfilter) ==
    IF InName("URAT", c.catalogname) /\ targetfilter \notin {"R", "I"}
    THEN {0, Sentinel}
    ELSE {0}

\* the bands transform_filters has a branch for
Bands ==
    {"B", "V", "R", "I", "g", "r", "i", "z", "Y", "Z", "J", "H", "K", "Z_UKIRT"}

\* the outcomes of transform_filters(targetfilter) on a catalog, over the
\* residuals and the uninitialised values the call may meet
TransformOutcomes(c, targetfilter) ==
    {transform_filters(c, targetfilter, remove, junk) :
        remove \in RemoveChoices(c, targetfilter),
        junk \in JunkChoices(c, targetfilter)}

MagSystems == {"AB", "Vega"}

(***************************************************************************)
(* The life of one catalog object                                          *)
(***************************************************************************)

Call(o, r) ==
    /\ cat' = [cat EXCEPT ![o] = r.obj]
    /\ ret' = [ret EXCEPT ![o] = r.out]
    /\ UNCHANGED <<mres, fit, disk>>

Init ==
    /\ \E name \in CatalogNames :
          cat = [o \in Objs |->
                    IF o = "this" THEN catalog(name) ELSE catalog(<<"mycat">>)]
    /\ ret = [o \in Objs |-> NoCall]
    /\ mres = NoMatch
    /\ fit = NoFit
    /\ disk = NoFile

\* download_catalog is called on a new object, before anything else
DownloadCatalog ==
    /\ ret["this"] = NoCall
    /\ \E raw \in SeqsUpTo(RawRows(cat["this"].catalogname), MaxRows),
          magsys \in MagSystems :
           Call("this", download_catalog(cat["this"], raw, magsys))

AddField ==
    \E arr \in Arrays(cat["this"]) :
        Call("this", add_field(cat["this"], "a", arr, "D"))

AddFields ==
    \E names \in BatchNames, arrays \in BatchArrays(cat["this"]) :
        \E types \in BatchTypes(names) :
            Call("this", add_fields(cat["this"], names, arrays, types))

RejectSourcesWith ==
    \E condition \in Masks(cat["this"]) :
        Call("this", reject_sources_with(cat["this"], condition))

RejectSourcesOtherThan ==
    \E condition \in Masks(cat["this"]) :
        Call("this", reject_sources_other_than(cat["this"], condition))

TransformFilters ==
    \E targetfilter \in TargetFilters :
        \E remove \in RemoveChoices(cat["this"], targetfilter),
           junk \in JunkChoices(cat["this"], targetfilter) :
            Call("this", transform_filters(cat["this"], targetfilter,
                                           remove, junk))

Next ==
    \/ DownloadCatalog
    \/ AddField
    \/ AddFields
    \/ RejectSourcesWith
    \/ RejectSourcesOtherThan
    \/ TransformFilters

Spec == Init /\ [][Next]_vars

(***************************************************************************)
(* Two copies of one catalog, filtered the two ways                        *)
(***************************************************************************)

InitSplit ==
    /\ \E name \in CatalogNames \ {<<"mycat">>}, magsys \in MagSystems :
         \E raw \in SeqsUpTo(RawRows(name), MaxRows) :
            cat = [o \in Objs |->
                      download_catalog(catalog(name), raw, magsys).obj]
    /\ ret = [o \in Objs |-> NoCall]
    /\ mres = NoMatch
    /\ fit = NoFit
    /\ disk = NoFile

\* reject_sources_with(condition) on one copy and
\* reject_sources_other_than(condition) on the other
Split ==
    /\ cat["this"] = cat["other"]
    /\ cat["this"].data.present
    /\ \E condition \in Masks(cat["this"]) :
         LET a == reject_sources_with(cat["this"], condition)
             b == reject_sources_other_than(cat["other"], condition)
         IN  /\ cat' = [cat EXCEPT !["this"] = a.obj, !["other"] = b.obj]
             /\ ret' = [ret EXCEPT !["this"] = a.out, !["other"] = b.out]
             /\ UNCHANGED <<mres, fit, disk>>

NextSplit == Split

SpecSplit == InitSplit /\ [][NextSplit]_vars

(***************************************************************************)
(* Two catalogs, matched                                                   *)
(***************************************************************************)

\* the positions of the sources: squared distances 0, 1, 4 and 5
MatchPoints == {<<0, 0>>, <<1, 0>>, <<0, 2>>}

\* a catalog as read from a file: the positions, and a magnitude column of
\* 64 or 32 bit floats that is filled, or not-a-number in its first row
MatchCatalog(points, nan_first, dtype) ==
    LET n == Len(points)
    IN  [catalog(<<"mycat">>) EXCEPT !.data = Tbl(
           << Column("ra.deg", "float64", "", [k \in 1..n |-> points[k][1]]),
              Column("dec.deg", "float64", "", [k \in 1..n |-> points[k][2]]),
              Column("mag", dtype, "",
                     [k \in 1..n |-> IF nan_first /\ k = 1 THEN NaN ELSE 10])
           >>)]

MatchCatalogs(dtype) ==
    {MatchCatalog(points, nan_first, dtype) :
        points \in SeqsUpTo(MatchPoints, MaxRows), nan_first \in BOOLEAN}

InitMatch ==
    /\ \E dtype \in {"float64", "float32"} :
         \E this \in MatchCatalogs(dtype), other \in MatchCatalogs(dtype) :
            cat = [o \in Objs |-> IF o = "this" THEN this ELSE other]
    /\ ret = [o \in Objs |-> NoCall]
    /\ mres = NoMatch
    /\ fit = NoFit
    /\ disk = NoFile

\* tolerance=r for a radius, tolerance=None for the nearest neighbours
Tolerances ==
    {[given |-> TRUE, r |-> 1], [given |-> TRUE, r |-> 2],
     [given |-> FALSE, r |-> 0]}

\* extract_this_catalog = extract_other_catalog: the default, or mag
ExtractLists == {<<"ra.deg", "dec.deg">>, <<"mag">>}

MatchKeys == <<"ra.deg", "dec.deg">>

\* what this_tree.query may answer (nothing to choose where it is not called)
QueryAnswers(this, other, tolerance) ==
    IF tolerance.given \/ Table_len(this.data.cols) = 0
       \/ Table_len(other.data.cols) = 0
    THEN {<<>>}
    ELSE query(Points(this, MatchKeys), Points(other, MatchKeys))

\* match_with changes neither catalog, so a second call on the same pair
\* reaches nothing a first call does not: one call per pair
MatchWith ==
    /\ ~mres.called
    /\ \E tolerance \in Tolerances, extract \in ExtractLists :
         \E nn \in QueryAnswers(cat["this"], cat["other"], tolerance) :
            mres' = match_with(cat["this"], cat["other"], MatchKeys,
                               MatchKeys, extract, extract, tolerance, nn)
    /\ UNCHANGED <<cat, ret, fit, disk>>

NextMatch == MatchWith

SpecMatch == InitMatch /\ [][NextMatch]_vars

(***************************************************************************)
(* Properties: the rows of the table                                       *)
(***************************************************************************)

(***************************************************************************)
(* The self-calibrated recipe on its own: an SDSS catalog of up to FitRows  *)
(* sources, transformed to one band after the other, with the residuals of  *)
(* each fit on record.                                                      *)
(***************************************************************************)

FitRows == 3

FitFilters == {"V", "R"}

InitFit ==
    /\ cat = [o \in Objs |->
                IF o = "this" THEN catalog(<<"SDSS", "-R9">>)
                ELSE catalog(<<"mycat">>)]
    /\ ret = [o \in Objs |-> NoCall]
    /\ mres = NoMatch
    /\ fit = NoFit
    /\ disk = NoFile

DownloadFit ==
    /\ ret["this"] = NoCall
    /\ \E raw \in SeqsUpTo(RawRows(cat["this"].catalogname), FitRows) :
           /\ cat' = [cat EXCEPT !["this"] =
                          download_catalog(cat["this"], raw, "AB").obj]
           /\ ret' = [ret EXCEPT !["this"] =
                          download_catalog(cat["this"], raw, "AB").out]
    /\ UNCHANGED <<mres, fit, disk>>

\* whether transform_filters(targetfilter) gets as far as the fit
fit_is_run(c, targetfilter) ==
    /\ c.data.present
    /\ Table_len(c.data.cols) > 0
    /\ ~already_available(c, targetfilter)
    /\ Len(np_where(keep_idc(c))) > 0

\* the sources handed to curve_fit, by their ident, and their residuals
fit_record(c, targetfilter, resid) ==
    IF fit_is_run(c, targetfilter)
    THEN [ident |-> [p \in 1..Len(resid) |->
                        V(c, "ident", np_where(keep_idc(c))[p])],
          resid |-> resid]
    ELSE NoFit

TransformFit ==
    /\ cat["this"].data.present
    /\ \E targetfilter \in FitFilters :
          \E resid \in ResidChoices(cat["this"], targetfilter) :
              \E r \in {transform_filters(cat["this"], targetfilter,
                                          remove_of(resid), 0)} :
                  /\ cat' = [cat EXCEPT !["this"] = r.obj]
                  /\ ret' = [ret EXCEPT !["this"] = r.out]
                  /\ fit' = fit_record(cat["this"], targetfilter, resid)
    /\ UNCHANGED <<mres, disk>>

NextFit == DownloadFit \/ TransformFit

SpecFit == InitFit /\ [][NextFit]_vars

(***************************************************************************)
(* Files: read_ldac, write_database, read_database                         *)
(***************************************************************************)

\* a FITS_LDAC file: its name, the number of its HDUs, the telescope keyword
\* of the header HDU and the table of the third HDU
LdacFile(filename, nhdu, telescope, cols) ==
    [filename |-> filename, nhdu |-> nhdu, telescope |-> telescope,
     cols |-> cols]

\* fits_filename=None
NoImage == [present |-> FALSE, filename |-> None, header |-> {}]

\* the image the catalog was extracted from, with the keywords of its header
Image(keys) == [present |-> TRUE, filename |-> "image.fits", header |-> keys]

\* fitsheader[keyword], after float() for the two times
HeaderValue(keyword) ==
    CASE keyword = "MIDTIMJD" -> "57000.5"
      [] keyword = "EXPTIME" -> "60.0"
      [] OTHER -> "Ceres"

\* a variant that takes a file of two HDUs for a catalog
too_few_hdus_two(file) == file.nhdu < 2

\* len(hdulist) < 3
too_few_hdus(file) == file.nhdu < 3

\* Table.rename_column(name, new_name)
rename_column(cols, name, new_name) ==
    [i \in 1..Len(cols) |->
        IF cols[i].name = name THEN [cols[i] EXCEPT !.name = new_name]
        ELSE cols[i]]

\* a variant that leaves the right ascensions as the file holds them
force_positive_asread(vals) == vals

\* flip_idc = np.where(ra < 0)[0]; ra[flip_idc] += 360
force_positive(vals) ==
    [k \in DOMAIN vals |-> IF vals[k] < 0 THEN vals[k] + 360 ELSE vals[k]]

\* the lines of read_ldac after the image header has been read: the columns
\* are renamed (KeyError when the new name is taken), ra.deg is looked up
\* (KeyError when there is none) and its negative values are raised by 360
read_ldac_columns(c) ==
    LET names == colnames(c.data.cols)
        x == IF "XWIN_WORLD" \in names
             THEN rename_column(c.data.cols, "XWIN_WORLD", "ra.deg")
             ELSE c.data.cols
        y == IF "YWIN_WORLD" \in names
             THEN rename_column(x, "YWIN_WORLD", "dec.deg")
             ELSE x
        flip == [i \in 1..Len(y) |->
                    IF y[i].name = "ra.deg"
                    THEN [y[i] EXCEPT !.vals = force_positive(@)]
                    ELSE y[i]]
    IN  IF "XWIN_WORLD" \in names /\ "ra.deg" \in names
        THEN Raised(c, "read_ldac", "KeyError")
        ELSE IF "YWIN_WORLD" \in names /\ "dec.deg" \in colnames(x)
        THEN Raised([c EXCEPT !.data = Tbl(x)], "read_ldac", "KeyError")
        ELSE IF "ra.deg" \notin colnames(y)
        THEN Raised([c EXCEPT !.data = Tbl(y)], "read_ldac", "KeyError")
        ELSE [obj |-> [c EXCEPT !.data = Tbl(flip)],
              out |-> Outcome("read_ldac", "none", FALSE,
                              shape([c EXCEPT !.data = Tbl(flip)]))]

\* the lines of read_ldac that read the image header: the first keyword the
\* header lacks raises KeyError, with the values before it assigned
read_ldac_header(c, image) ==
    IF "MIDTIMJD" \notin image.header
    THEN Raised(c, "read_ldac", "KeyError")
    ELSE IF "EXPTIME" \notin image.header
    THEN Raised([c EXCEPT !.obstime[1] = HeaderValue("MIDTIMJD")],
                "read_ldac", "KeyError")
    ELSE IF "OBJECT" \notin image.header
    THEN Raised([c EXCEPT !.obstime = <<HeaderValue("MIDTIMJD"),
                                        HeaderValue("EXPTIME")>>],
                "read_ldac", "KeyError")
    ELSE read_ldac_columns(
             [c EXCEPT !.obstime = <<HeaderValue("MIDTIMJD"),
                                     HeaderValue("EXPTIME")>>,
                       !.obj = HeaderValue("OBJECT")])

\* read_ldac(filename, fits_filename, maxflag).  maxflag: <<>> for None, <<m>>
\* for a number.  '{:s}'.format(None) raises TypeError, so without an image
\* the call ends when the origin is formatted, the table and the name set.
read_ldac(c, file, image, maxflag) ==
    IF too_few_hdus(file)
    THEN [obj |-> c, out |-> Outcome("read_ldac", "none", TRUE, 0)]
    ELSE
    LET c1 == [c EXCEPT !.data = Tbl(file.cols),
                        !.catalogname = file.filename]
        c2 == [c1 EXCEPT !.origin = file.telescope \o ";" \o image.filename,
                         !.magsys = "instrumental"]
    IN  IF ~image.present THEN Raised(c1, "read_ldac", "TypeError")
        ELSE IF maxflag = <<>> THEN read_ldac_header(c2, image)
        ELSE IF ~HasCols(c2, {"FLAGS"})
        THEN Raised(c2, "read_ldac", "KeyError")
        ELSE read_ldac_header(
                 reject_sources_other_than(c2,
                     [k \in 1..Table_len(c2.data.cols) |->
                         V(c2, "FLAGS", k) <= maxflag[1]]).obj,
                 image)

\* the name, the FITS format and the dtype write_ldac gives a column
ldac_column(name) ==
    CASE name = "ra.deg" -> <<"XWIN_WORLD", "float64">>
      [] name = "dec.deg" -> <<"YWIN_WORLD", "float64">>
      [] name = "e_ra.deg" -> <<"ERRAWIN_WORLD", "float32">>
      [] name = "e_dec.deg" -> <<"ERRBWIN_WORLD", "float32">>
      [] name = "mag" -> <<"MAG", "float32">>
      [] OTHER -> <<>>

\* the columns of the table that colname_dic maps, in the order of the table
RECURSIVE ldac_columns(_)
ldac_columns(cols) ==
    IF cols = <<>> THEN <<>>
    ELSE LET to == ldac_column(cols[1].name)
         IN  IF to = <<>> THEN ldac_columns(Tail(cols))
             ELSE <<Column(to[1], to[2], "", cols[1].vals)>>
                  \o ldac_columns(Tail(cols))

\* an LDAC file as the content of the disk
Ldac(file) == [kind |-> "ldac", file |-> file]

\* write_ldac(ldac_filename): a file of three HDUs with the mapped columns
\* and the columns MAGERR (0.01 mag) and OBSDATE (2015.0) for every source;
\* the header HDU holds the one card 'obtained through Vizier', in which
\* read_ldac finds no telescope.  Returns len(self.data).
write_ldac(c, ldac_filename) ==
    IF ~c.data.present
    THEN [obj |-> c, out |-> Outcome("write_ldac", "AttributeError", TRUE, 0),
          disk |-> NoFile]
    ELSE LET n == Table_len(c.data.cols)
             cols == ldac_columns(c.data.cols)
                     \o << Column("MAGERR", "float32", "", [k \in 1..n |-> 1]),
                           Column("OBSDATE", "float64", "",
                                  [k \in 1..n |-> 2015]) >>
         IN  [obj |-> c, out |-> Outcome("write_ldac", "none", FALSE, n),
              disk |-> Ldac(LdacFile(ldac_filename, 3, "", cols))]

\* a file that is no database a catalog can be read from: nothing, or a
\* header table without a row
Broken == [kind |-> "broken"]

\* a database file with the header row only
HeaderOnly(header) == [kind |-> "header", header |-> header]

\* a database file with the header row and the data table
Db(header, cols) == [kind |-> "db", header |-> header, cols |-> cols]

\* the SQL type write_database declares for a column, from the type of its
\* first element
sql_type(dtype) ==
    CASE dtype \in {"float32", "float64"} -> "REAL"
      [] dtype \in {"int16", "int32"} -> "INTEGER"
      [] dtype = "bytes" -> "TEXT"
      [] OTHER -> "unknown"

\* SQL compares column names without regard to case
sql_fold(name) ==
    CASE name = "_Vmag" -> "_vmag"     [] name = "_e_Vmag" -> "_e_vmag"
      [] name = "_Rmag" -> "_rmag"     [] name = "_e_Rmag" -> "_e_rmag"
      [] name = "_Imag" -> "_imag"     [] name = "_e_Imag" -> "_e_imag"
      [] name = "_Zmag" -> "_zmag"     [] name = "_e_Zmag" -> "_e_zmag"
      [] name = "Gmag" -> "gmag"       [] name = "e_Gmag" -> "e_gmag"
      [] OTHER -> name

\* a name SQL reads as one identifier when it is not quoted
sql_identifier(name) ==
    name \notin {"ra.deg", "dec.deg", "e_ra.deg", "e_dec.deg"}

\* the header row of write_database
header_row(c) ==
    [name |-> c.catalogname, origin |-> c.origin, description |-> c.history,
     magsys |-> c.magsys, obstime |-> c.obstime[1], exptime |-> c.obstime[2],
     obj |-> c.obj]

\* a cell of the data table that holds NULL: sqlite3 stores a NaN so
is_null(col, k) == col.decl = "REAL" /\ col.vals[k] = NaN

\* the outcomes of a write_database call that raises exc, one for each file
\* it may leave behind
write_fails(c, exc, files) ==
    {[obj |-> c, out |-> Outcome("write_database", exc, TRUE, 0),
      disk |-> f] : f \in files}

\* write_database(filename): the outcomes of the call.  Statements before the
\* commit are lost when the call raises, except those an implicit commit
\* before a CREATE TABLE has saved (sqlite3 before Python 3.6).
write_database(c) ==
    LET cols == c.data.cols
        n    == Len(cols)
        decl == [i \in 1..n |-> sql_type(cols[i].dtype)]
        file == Db(header_row(c),
                   [i \in 1..n |-> [name |-> cols[i].name, decl |-> decl[i],
                                    vals |-> cols[i].vals]])
    IN  IF ~c.data.present
        THEN write_fails(c, "AttributeError", {Broken})
        ELSE IF n = 0
        THEN write_fails(c, "OperationalError",
                         {Broken, HeaderOnly(header_row(c))})
        ELSE IF Table_len(cols) = 0
        THEN write_fails(c, "IndexError", {Broken})
        ELSE IF \E i \in 1..n : decl[i] = "unknown"
        THEN write_fails(c, "TypeError", {Broken})
        ELSE IF \E i, j \in 1..n :
                    i # j /\ sql_fold(cols[i].name) = sql_fold(cols[j].name)
        THEN write_fails(c, "OperationalError",
                         {Broken, HeaderOnly(header_row(c))})
        ELSE IF \E i \in 1..n : decl[i] = "TEXT"
        THEN write_fails(c, "KeyError", {Broken, HeaderOnly(header_row(c))})
        ELSE IF ~sql_identifier(cols[1].name)
        THEN write_fails(c, "OperationalError", {file})
        ELSE {[obj |-> c,
               out |-> Outcome("write_database", "none", FALSE,
                               Cardinality({file.cols[1].vals[k] :
                                   k \in {j \in 1..Table_len(cols) :
                                             ~is_null(file.cols[1], j)}})),
               disk |-> file]}

\* a value as a 16-bit integer (FITS format 'I')
int16_of(v) == ((v + 32768) % 65536) - 32768

\* a variant that takes None for the type when any row holds NULL
any_row_type(col) ==
    IF \E k \in DOMAIN col.vals : is_null(col, k) THEN "NoneType"
    ELSE IF col.decl = "REAL" THEN "float"
    ELSE IF col.decl = "INTEGER" THEN "int"
    ELSE "str"

\* type(rows[0][key_idx]): the Python type of the value of the first row
first_row_type(col) ==
    IF is_null(col, 1) THEN "NoneType"
    ELSE IF col.decl = "REAL" THEN "float"
    ELSE IF col.decl = "INTEGER" THEN "int"
    ELSE "str"

\* the column read_database builds from a column of the data table, every
\* value converted with the type of the first row: float values become
\* single precision (np.float64, then FITS format 'E'; None gives nan),
\* int values 16-bit integers (np.int64, then FITS format 'I').  No file
\* holds a TEXT column: write_database raises before it stores one.
read_column(col) ==
    IF first_row_type(col) = "float"
    THEN Column(col.name, "float32", "", col.vals)
    ELSE Column(col.name, "int16", "",
                [k \in DOMAIN col.vals |-> int16_of(col.vals[k])])

\* the assignments of read_database from the header row
read_header(c, header) ==
    [c EXCEPT !.catalogname = header.name, !.origin = header.origin,
              !.history = header.description, !.magsys = header.magsys,
              !.obstime = <<header.obstime, header.exptime>>,
              !.obj = header.obj]

\* read_database(filename).  sqlite3.connect creates the file when there is
\* none, so the except branch is not taken; the query of a missing table
\* raises OperationalError.
read_database(c, file) ==
    IF file.kind \in {"none", "broken"}
    THEN [obj |-> c,
          out |-> Outcome("read_database", "OperationalError", TRUE, 0),
          disk |-> Broken]
    ELSE IF file.kind = "header"
    THEN [obj |-> read_header(c, file.header),
          out |-> Outcome("read_database", "OperationalError", TRUE, 0),
          disk |-> file]
    ELSE IF \E i \in 1..Len(file.cols) :
                first_row_type(file.cols[i]) = "NoneType"
    THEN [obj |-> read_header(c, file.header),
          out |-> Outcome("read_database", "KeyError", TRUE, 0),
          disk |-> file]
    ELSE LET cols == [i \in 1..Len(file.cols) |-> read_column(file.cols[i])]
             obj  == [read_header(c, file.header) EXCEPT !.data = Tbl(cols)]
         IN  [obj |-> obj,
              out |-> Outcome("read_database", "none", FALSE, shape(obj)[1]),
              disk |-> file]

(***************************************************************************)
(* A catalog read from a file, transformed, written and read back          *)
(***************************************************************************)

\* the sources of an LDAC file: NUMBER is filled in by position; the values
\* are XWIN_WORLD, YWIN_WORLD (degrees), FLAGS and, in 0.01 mag, Gmag,
\* e_Gmag, BPmag, RPmag
LdacRows ==
    {<<10, 0, 0, 1500, 1, 1600, 1500>>,     \* BP-RP = 1.0
     <<-10, 0, 0, 1500, 1, 1510, 1500>>,    \* RA < 0, BP-RP = 0.1
     <<10, 0, 4, 1500, 1, 1600, 1500>>}     \* flagged

LdacCols ==
    << <<"XWIN_WORLD", "float64">>, <<"YWIN_WORLD", "float64">>,
       <<"FLAGS", "int16">>, <<"Gmag", "float32">>, <<"e_Gmag", "float32">>,
       <<"BPmag", "float32">>, <<"RPmag", "float32">> >>

\* the table of the third HDU
LdacTable(rows) ==
    << Column("NUMBER", "int32", "", [k \in 1..Len(rows) |-> k]) >>
    \o [j \in 1..Len(LdacCols) |->
          Column(LdacCols[j][1], LdacCols[j][2], "",
                 [k \in 1..Len(rows) |-> rows[k][j]])]

\* files Source Extractor left without sources
ShortFiles ==
    {LdacFile(filename, nhdu, "VATT4K", <<>>) :
        filename \in {<<"GAIA", ".ldac">>, <<"image", ".ldac">>},
        nhdu \in {1, 2}}

\* the files read_ldac is given: Source Extractor catalogs and reference
\* catalogs in LDAC format, with and without sources
LdacFiles ==
    {LdacFile(filename, 3, "VATT4K", LdacTable(rows)) :
        filename \in {<<"GAIA", ".ldac">>, <<"image", ".ldac">>},
        rows \in SeqsUpTo(LdacRows, MaxRows)}
    \cup ShortFiles

Images ==
    {NoImage, Image({"MIDTIMJD", "EXPTIME", "OBJECT"}),
     Image({"EXPTIME", "OBJECT"}), Image({"MIDTIMJD", "EXPTIME"})}

Maxflags == {<<>>, <<3>>}

InitFile ==
    /\ cat = [o \in Objs |-> catalog(<<"mycat">>)]
    /\ ret = [o \in Objs |-> NoCall]
    /\ mres = NoMatch
    /\ fit = NoFit
    /\ disk = NoFile

\* read_ldac on a new object, or at any time on a file without sources
ReadLdac ==
    /\ \E file \in LdacFiles, image \in Images, maxflag \in Maxflags :
          /\ ret["this"] = NoCall \/ too_few_hdus(file)
          /\ \E r \in {read_ldac(cat["this"], file, image, maxflag)} :
                /\ cat' = [cat EXCEPT !["this"] = r.obj]
                /\ ret' = [ret EXCEPT !["this"] = r.out]
    /\ UNCHANGED <<mres, fit, disk>>

FileFilters == {"V", "g"}

TransformFile ==
    /\ cat["this"].data.present
    /\ \E targetfilter \in FileFilters :
          \E r \in TransformOutcomes(cat["this"], targetfilter) :
              /\ cat' = [cat EXCEPT !["this"] = r.obj]
              /\ ret' = [ret EXCEPT !["this"] = r.out]
    /\ UNCHANGED <<mres, fit, disk>>

WriteDatabase ==
    /\ \E r \in write_database(cat["this"]) :
          /\ cat' = [cat EXCEPT !["this"] = r.obj]
          /\ ret' = [ret EXCEPT !["this"] = r.out]
          /\ disk' = r.disk
    /\ UNCHANGED <<mres, fit>>

ReadDatabase ==
    /\ \E r \in {read_database(cat["this"], disk)} :
          /\ cat' = [cat EXCEPT !["this"] = r.obj]
          /\ ret' = [ret EXCEPT !["this"] = r.out]
          /\ disk' = r.disk
    /\ UNCHANGED <<mres, fit>>

NextFile == ReadLdac \/ TransformFile \/ WriteDatabase \/ ReadDatabase

SpecFile == InitFile /\ [][NextFile]_vars

(***************************************************************************)
(* Reference catalogs written as LDAC files and read back                  *)
(***************************************************************************)

\* the catalogs that are downloaded and saved
SavedNames == {<<"GAIA">>, <<"URAT", "-1">>, <<"2MASS">>}

\* the right ascensions a service returns for a field at 0 degrees
ServiceRa == {10, -10}

\* the rows of a query with their right ascensions: one star of the
\* catalog at each of them
RaRows(catalogname) ==
    LET row == CHOOSE row \in RawRows(catalogname) : TRUE
    IN  {row \o <<ra>> : ra \in ServiceRa}

\* the Source Extractor catalogs on the disk
ExtractedFiles ==
    {LdacFile(<<"image", ".ldac">>, 3, "VATT4K", LdacTable(rows)) :
        rows \in SeqsUpTo(LdacRows, MaxRows)}

InitLdac ==
    /\ \E catalogname \in SavedNames :
          cat = [o \in Objs |-> IF o = "this" THEN catalog(catalogname)
                                 ELSE catalog(<<"mycat">>)]
    /\ ret = [o \in Objs |-> NoCall]
    /\ mres = NoMatch
    /\ fit = NoFit
    /\ disk \in {NoFile} \cup {Ldac(file) : file \in ExtractedFiles}

\* download_catalog on the new object
DownloadRa ==
    /\ ret["this"] = NoCall
    /\ \E raw \in SeqsUpTo(RaRows(cat["this"].catalogname), MaxRows),
          magsys \in MagSystems :
          Call("this", download_catalog(cat["this"], raw, magsys))

\* write_ldac(self.catalogname + '.cat'), as save_catalog does; a call that
\* raises leaves the disk as it is
WriteLdac ==
    /\ \E r \in {write_ldac(cat["this"],
                             cat["this"].catalogname \o <<".cat">>)} :
          /\ cat' = [cat EXCEPT !["this"] = r.obj]
          /\ ret' = [ret EXCEPT !["this"] = r.out]
          /\ disk' = IF r.out.raised = "none" THEN r.disk ELSE disk
    /\ UNCHANGED <<mres, fit>>

\* read_ldac of the file on the disk by the other object
ReadLdacBack ==
    /\ disk.kind = "ldac"
    /\ \E image \in Images, maxflag \in Maxflags :
          Call("other", read_ldac(cat["other"], disk.file, image, maxflag))

NextLdac == DownloadRa \/ WriteLdac \/ ReadLdacBack

SpecLdac == InitLdac /\ [][NextLdac]_vars

(***************************************************************************)
(* Catalogs of several column types written to a database and read back    *)
(***************************************************************************)

\* the columns of the catalogs in LDAC format: a Source Extractor catalog
\* of numbered sources, one with the flags first and magnitudes in double
\* precision, one with a 64-bit identifier, one with a text column
DbLayouts ==
    { << <<"NUMBER", "int32">>, <<"XWIN_WORLD", "float64">>,
         <<"YWIN_WORLD", "float64">>, <<"MAG", "float32">> >>,
      << <<"FLAGS", "int16">>, <<"XWIN_WORLD", "float64">>,
         <<"YWIN_WORLD", "float64">>, <<"MAG", "float64">> >>,
      << <<"SOURCE_ID", "int64">>, <<"XWIN_WORLD", "float64">>,
         <<"YWIN_WORLD", "float64">>, <<"MAG", "float64">> >>,
      << <<"NUMBER", "int32">>, <<"XWIN_WORLD", "float64">>,
         <<"YWIN_WORLD", "float64">>, <<"NAME", "bytes">> >> }

\* the sources: right ascension and declination in degrees, the magnitude
\* in 0.01 mag; NaN for a magnitude that was not measured
DbRows ==
    {<<10, 0, 1500>>, <<10, 0, 1510>>, <<10, 0, NaN>>}

\* the value of a column in a row: the position of the source for NUMBER
\* and SOURCE_ID, no flag set, a name of one character
DbCell(name, row, k) ==
    CASE name \in {"NUMBER", "SOURCE_ID"} -> k
      [] name = "XWIN_WORLD" -> row[1]
      [] name = "YWIN_WORLD" -> row[2]
      [] name = "MAG" -> row[3]
      [] OTHER -> 0

DbTable(layout, rows) ==
    [j \in 1..Len(layout) |->
        Column(layout[j][1], layout[j][2], "",
               [k \in 1..Len(rows) |-> DbCell(layout[j][1], rows[k], k)])]

DbFiles ==
    {LdacFile(<<"image", ".ldac">>, 3, "VATT4K", DbTable(layout, rows)) :
        layout \in DbLayouts, rows \in SeqsUpTo(DbRows, MaxRows)}

InitDb ==
    /\ cat = [o \in Objs |-> catalog(<<"mycat">>)]
    /\ ret = [o \in Objs |-> NoCall]
    /\ mres = NoMatch
    /\ fit = NoFit
    /\ disk = NoFile

\* read_ldac of a Source Extractor catalog on the new object
ReadLdacDb ==
    /\ ret["this"] = NoCall
    /\ \E file \in DbFiles :
          Call("this", read_ldac(cat["this"], file,
                                 Image({"MIDTIMJD", "EXPTIME", "OBJECT"}),
                                 <<>>))

\* read_database of the file on the disk by the other object
ReadDatabaseBack ==
    /\ \E r \in {read_database(cat["other"], disk)} :
          /\ cat' = [cat EXCEPT !["other"] = r.obj]
          /\ ret' = [ret EXCEPT !["other"] = r.out]
          /\ disk' = r.disk
    /\ UNCHANGED <<mres, fit>>

NextDb == ReadLdacDb \/ WriteDatabase \/ ReadDatabaseBack

SpecDb == InitDb /\ [][NextDb]_vars

\* the catalog match_with is called on, and the one it is handed
self == cat["this"]
peer == cat["other"]

\* the rows of a table, each the tuple of its cells
RowSet(cols) ==
    {[i \in 1..Len(cols) |-> cols[i].vals[k]] : k \in 1..Table_len(cols)}

\* C1: after add_field, add_fields, reject_sources_with,
\* reject_sources_other_than and transform_filters, in any order and whether
\* they succeed or raise, every column of the table holds as many values as
\* shape[0] says the catalog has rows.
C1_RowCount ==
    \A o \in Objs :
        (cat[o].data.present /\ ~shape_raises(cat[o])) =>
            \A i \in 1..Len(cat[o].data.cols) :
                Len(cat[o].data.cols[i].vals) = shape(cat[o])[1]

\* a catalog that was given a column, transformed and then filtered down to
\* one row
C1_Witness ==
    /\ self.data.present
    /\ "a" \in colnames(self.data.cols)
    /\ InName("_transformed", self.catalogname)
    /\ ret["this"].op = "reject_sources_with"
    /\ ret["this"].raised = "none"
    /\ ret["this"].value = 1
    /\ Table_len(self.data.cols) = 1

C3_Partition ==
    [][(/\ self = peer
        /\ ret'["this"].op = "reject_sources_with"
        /\ ret'["other"].op = "reject_sources_other_than")
       => /\ RowSet(cat'["this"].data.cols)
               \cap RowSet(cat'["other"].data.cols) = {}
          /\ RowSet(cat'["this"].data.cols)
               \cup RowSet(cat'["other"].data.cols) = RowSet(self.data.cols)
          /\ Table_len(cat'["this"].data.cols)
               + Table_len(cat'["other"].data.cols)
               = Table_len(self.data.cols)]_vars

\* the two copies after a split that left a row on either side
C3_Witness ==
    /\ ret["this"].op = "reject_sources_with"
    /\ ret["other"].op = "reject_sources_other_than"
    /\ Table_len(self.data.cols) = 1
    /\ Table_len(peer.data.cols) = 1
    /\ self.data.cols # peer.data.cols

(***************************************************************************)
(* Properties: adding columns                                              *)
(***************************************************************************)

\* C4: add_field returns a count, adds the column when the values are as many
\* as the catalog has rows, and on a catalog that has no table yet it starts
\* the table with the column instead of failing.
C4_AddField ==
    [][ret'["this"].op = "add_field" =>
         /\ ret'["this"].raised = "none" => ~ret'["this"].isNone
         /\ (ret'["this"].raised = "none" /\ self.data.present
               /\ self.data.cols # <<>>) =>
              Len(getcol(cat'["this"].data.cols, "a").vals)
                 = Table_len(self.data.cols)
         /\ ~self.data.present =>
              /\ ret'["this"].raised = "none"
              /\ cat'["this"].data.present
              /\ "a" \in colnames(cat'["this"].data.cols)]_vars

\* C5: add_fields returns the number of fields it added, and a call that
\* fails leaves the catalog as it was.
C5_AddFields ==
    [][ret'["this"].op = "add_fields" =>
         /\ ret'["this"].raised = "none" =>
              /\ ~ret'["this"].isNone
              /\ cat'["this"].data.present
              /\ ret'["this"].value =
                   Len(cat'["this"].data.cols)
                     - (IF self.data.present THEN Len(self.data.cols) ELSE 0)
         /\ ret'["this"].raised # "none" => cat'["this"] = self]_vars

(***************************************************************************)
(* Properties: matching                                                    *)
(***************************************************************************)

Matched == mres.called /\ mres.raised = "none"

\* the squared distance of row x of this catalog and row j of the other
Dist2(x, j) ==
    (V(self, "ra.deg", x) - V(peer, "ra.deg", j))
        * (V(self, "ra.deg", x) - V(peer, "ra.deg", j))
    + (V(self, "dec.deg", x) - V(peer, "dec.deg", j))
        * (V(self, "dec.deg", x) - V(peer, "dec.deg", j))

\* the rows of the other catalog within the tolerance of row x of this one
InReach(x) ==
    {j \in 1..Table_len(peer.data.cols) :
        Dist2(x, j) <= mres.tolerance * mres.tolerance}

\* no magnitude of either catalog is not-a-number
AllFilled ==
    \A o \in Objs : \A k \in 1..Table_len(cat[o].data.cols) :
        V(cat[o], "mag", k) # NaN

\* C6: with a tolerance, a row of this catalog is matched if and only if
\* exactly one row of the other catalog lies within the tolerance, and it is
\* matched with that row; a row with several rows in reach is dropped.  The
\* matched pairs are the result where every extracted field is filled.
C6_Radius ==
    (Matched /\ mres.mode = "radius") =>
        /\ \A x \in 1..Table_len(self.data.cols) :
              (\E k \in DOMAIN mres.matched : mres.matched[k][1] = x)
                 <=> Cardinality(InReach(x)) = 1
        /\ \A k \in DOMAIN mres.matched :
              mres.matched[k][2] \in InReach(mres.matched[k][1])
        /\ AllFilled => mres.indices = mres.matched

\* a match in which one row was dropped for its two neighbours and another
\* row was matched with its only one
C6_Witness ==
    /\ Matched
    /\ mres.mode = "radius"
    /\ \E x \in 1..Table_len(self.data.cols) : Cardinality(InReach(x)) = 2
    /\ Len(mres.indices) = 1

\* C7: in both modes no row of this catalog and no row of the other catalog
\* appears in more than one pair of the result.
C7_Exclusive ==
    Matched =>
        \A k, l \in DOMAIN mres.indices :
            k # l => /\ mres.indices[k][1] # mres.indices[l][1]
                     /\ mres.indices[k][2] # mres.indices[l][2]

\* C8: without a tolerance every row of the other catalog goes to a nearest
\* row of this catalog, and a row of this catalog that several rows go to
\* is matched with the nearest of them, the one of lowest index among the
\* equally near.  (d: the distances of the rows of the two catalogs.)
C8_Nearest ==
    (Matched /\ mres.mode = "nearest") =>
        LET rows_self == 1..Table_len(self.data.cols)
            rows_peer == 1..Table_len(peer.data.cols)
        IN  \E d \in {[x \in rows_self |->
                         [j \in rows_peer |-> Dist2(x, j)]]} :
            \E nn \in [rows_peer -> rows_self] :
              /\ \A j \in rows_peer : \A x \in rows_self :
                    d[nn[j]][j] <= d[x][j]
              /\ Len(mres.matched) = Cardinality({nn[j] : j \in rows_peer})
              /\ \A x \in {nn[j] : j \in rows_peer} :
                    \E k \in DOMAIN mres.matched :
                        LET j == mres.matched[k][2]
                        IN  /\ mres.matched[k][1] = x
                            /\ nn[j] = x
                            /\ \A i \in rows_peer :
                                  nn[i] = x =>
                                     /\ d[x][j] <= d[x][i]
                                     /\ d[x][i] = d[x][j] => j <= i

\* two equally near rows of the other catalog went to the one row of this
\* catalog, which was matched with the first of them
C8_Witness ==
    /\ Matched
    /\ mres.mode = "nearest"
    /\ Table_len(self.data.cols) = 1
    /\ Table_len(peer.data.cols) = 2
    /\ Dist2(1, 1) = Dist2(1, 2)
    /\ mres.matched = << <<1, 1>> >>

\* C9: no array match_with returns holds a not-a-number, whatever the width
\* of the floating-point column it was extracted from.
C9_NoNaN ==
    Matched =>
        /\ \A f \in DOMAIN mres.output_this_catalog :
              \A k \in DOMAIN mres.output_this_catalog[f] :
                  mres.output_this_catalog[f][k] # NaN
        /\ \A f \in DOMAIN mres.output_other_catalog :
              \A k \in DOMAIN mres.output_other_catalog[f] :
                  mres.output_other_catalog[f][k] # NaN

\* C10: match_with on a catalog of no rows, on either side, returns an empty
\* result and raises nothing.
C10_Empty ==
    (/\ mres.called
     /\ \/ Table_len(self.data.cols) = 0
        \/ Table_len(peer.data.cols) = 0)
    => /\ mres.raised = "none"
       /\ mres.indices = <<>>
       /\ \A f \in DOMAIN mres.output_this_catalog :
             mres.output_this_catalog[f] = <<>>
       /\ \A f \in DOMAIN mres.output_other_catalog :
             mres.output_other_catalog[f] = <<>>

\* C11: transform_filters towards a band whose derived column the catalog
\* already holds returns the current number of rows and changes nothing: not
\* the rows, the columns, the name, the history or the magnitude system.
C11_Idempotent ==
    \A targetfilter \in Bands :
        (self.data.present /\ HasCols(self, {"_" \o targetfilter \o "mag"})) =>
            TransformOutcomes(self, targetfilter)
                = {Returns(self, Table_len(self.data.cols))}

\* C11: a catalog of two rows that holds _Vmag after a transformation to V
C11_Witness ==
    /\ self.data.present
    /\ Table_len(self.data.cols) = 2
    /\ HasCols(self, {"_Vmag"})
    /\ ret["this"] = Outcome("transform_filters", "none", FALSE, 2)
    /\ InName("_transformed", self.catalogname)

\* the (family, band) pairs none of the recipes covers
NoRecipe(catalogname, targetfilter) ==
    LET in(substr) == InName(substr, catalogname)
    IN  /\ ~((in("SDSS") \/ in("SkyMapper"))
              /\ targetfilter \in {"B", "V", "R", "I", "Z_UKIRT"})
        /\ ~((in("URAT") \/ in("APASS")) /\ targetfilter \in {"R", "I"})
        /\ ~(in("2MASS") /\ targetfilter \in {"Y", "Z", "J", "H", "K"})
        /\ ~(in("PANSTARRS")
              /\ targetfilter \in {"B", "V", "R", "I", "g", "r", "i", "z"})
        /\ ~(in("GAIA") /\ targetfilter \in {"V", "R", "I", "g", "r", "i"})

\* C12: transform_filters on a (family, band) pair without a recipe, URAT
\* with a band other than R or I included, returns 0, raises nothing and
\* leaves the catalog as it was.
C12_NoRecipe ==
    \A targetfilter \in Bands :
        (/\ self.data.present
         /\ ~HasCols(self, {"_" \o targetfilter \o "mag"})
         /\ NoRecipe(self.catalogname, targetfilter))
        => TransformOutcomes(self, targetfilter) = {Returns(self, 0)}

\* the idents of the sources of a catalog
Idents(c) == {V(c, "ident", k) : k \in 1..Table_len(c.data.cols)}

\* a fit has been run by the last call and the call has returned
FitRan == fit # NoFit /\ ret["this"].raised = "none"

\* C13: after the self-calibrated transformation the sources left are the
\* pre-filtered sources whose residual is at most three standard deviations
\* of the residuals of the pre-filtered sources, and no others.
C13_Outliers ==
    FitRan =>
        Idents(self) = {fit.ident[p] : p \in DOMAIN fit.ident \ remove_of(fit.resid)}

\* C14: a fit that leaves every residual at zero rejects nothing: the call
\* returns the number of pre-filtered sources, and they are all kept.
C14_ExactFit ==
    (FitRan /\ \A p \in DOMAIN fit.resid : fit.resid[p] = 0) =>
        /\ ret["this"].value = Len(fit.ident)
        /\ Table_len(self.data.cols) = Len(fit.ident)
        /\ Idents(self) = {fit.ident[p] : p \in DOMAIN fit.ident}

\* C14: three sources, two of them pre-filtered and exactly on the line
C14_Witness ==
    /\ FitRan
    /\ fit.resid = <<0, 0>>
    /\ Idents(self) = {2, 3}
    /\ ret["this"] = Outcome("transform_filters", "none", FALSE, 2)

\* no source of the catalog c is left by the call with outcome r: the table
\* has no rows, or the self-calibrated recipe found no source to fit
NoneSurvive(c, targetfilter, r) ==
    \/ Table_len(r.obj.data.cols) = 0
    \/ /\ InName("SDSS", c.catalogname) \/ InName("SkyMapper", c.catalogname)
       /\ targetfilter \in {"B", "V", "R", "I"}
       /\ ~HasCols(c, {"_" \o targetfilter \o "mag"})
       /\ HasCols(c, {"gmag", "rmag", "imag"})
       /\ np_where(keep_idc(c)) = <<>>

DerivedNames ==
    UNION {{"_" \o b \o "mag", "_e_" \o b \o "mag"} : b \in Bands}

\* the bands of the recipes that accept a range of colours or magnitudes
\* only; the 2MASS recipe is for catalogs in the Vega system
RangedBands(c) ==
    IF InName("GAIA", c.catalogname) THEN {"V", "R", "I", "g", "r", "i"}
    ELSE IF InName("2MASS", c.catalogname) /\ c.magsystem = "Vega"
    THEN {"Y", "Z", "J", "H", "K"}
    ELSE {}

\* source k of catalog c is inside the range the recipe for the band accepts
InRange(c, targetfilter, k) ==
    IF InName("GAIA", c.catalogname)
    THEN /\ V(c, "BPmag", k) - V(c, "RPmag", k) > GaiaRange(targetfilter)[1]
         /\ V(c, "BPmag", k) - V(c, "RPmag", k) < GaiaRange(targetfilter)[2]
    ELSE /\ V(c, "Jmag", k) - V(c, "Hmag", k) >= -10
         /\ V(c, "Jmag", k) - V(c, "Hmag", k) <= 100
         /\ V(c, "Jmag", k) <= 1800
         /\ V(c, "Hmag", k) <= 1700

\* no derived column of catalog c holds the value 99
NoSentinel(c) ==
    \A i \in 1..Len(c.data.cols) :
        c.data.cols[i].name \in DerivedNames =>
            \A k \in DOMAIN c.data.cols[i].vals :
                c.data.cols[i].vals[k] # Sentinel

\* C16: whenever transform_filters(band) returns on a 2MASS or GAIA catalog,
\* in whatever state earlier calls for other bands left it, every source of
\* the catalog is inside the range the recipe for that band accepts and no
\* derived column holds 99.
C16_InRange ==
    \A targetfilter \in RangedBands(self) :
        self.data.present =>
            \A r \in TransformOutcomes(self, targetfilter) :
                r.out.raised = "none" =>
                    /\ \A k \in 1..Table_len(r.obj.data.cols) :
                          InRange(r.obj, targetfilter, k)
                    /\ NoSentinel(r.obj)

\* the derived columns of a catalog
DerivedCols(c) ==
    IF c.data.present THEN colnames(c.data.cols) \cap DerivedNames ELSE {}

\* a step in which transform_filters returns with new derived columns added
DerivesNewBand ==
    /\ ret'["this"].op = "transform_filters"
    /\ ret'["this"].raised = "none"
    /\ DerivedCols(cat'["this"]) \ DerivedCols(cat["this"]) # {}

\* C17: every transform_filters call that derives a new band appends one
\* entry to the history, with the number of sources transformed; k such
\* calls leave k transformation entries.
C17_History ==
    [][DerivesNewBand =>
          /\ Len(cat'["this"].history) = Len(cat["this"].history) + 1
          /\ cat'["this"].history[Len(cat'["this"].history)].what
                = "transformed"
          /\ cat'["this"].history[Len(cat'["this"].history)].n
                = Table_len(cat'["this"].data.cols)]_vars

\* the magnitude system a GAIA recipe sets for a band
SystemOf(band) == IF band \in {"g", "r", "i"} THEN "AB" ELSE "Vega"

\* the catalog has been read back from a database written after a
\* transformation
ReadBackTransformed ==
    /\ ret["this"].op = "read_database"
    /\ ret["this"].raised = "none"
    /\ self.history # <<>>
    /\ self.history[Len(self.history)].what = "transformed"

\* C18: a catalog written by write_database after a transformation and read
\* back by read_database carries the magnitude system the transformation
\* set.
C18_RoundTrip ==
    ReadBackTransformed =>
        self.magsys = SystemOf(self.history[Len(self.history)].band)

\* C20: read_ldac on a file of fewer than three HDUs returns None, raises
\* nothing and leaves the catalog as it was, whatever image and maxflag it
\* is called with.
C20_ShortFile ==
    \A file \in ShortFiles, image \in Images, maxflag \in Maxflags :
        read_ldac(self, file, image, maxflag)
            = [obj |-> self, out |-> Outcome("read_ldac", "none", TRUE, 0)]

\* C20: a catalog read from a file with its image, then handed a file
\* without sources
C20_Witness ==
    /\ ret["this"] = Outcome("read_ldac", "none", TRUE, 0)
    /\ self.data.present
    /\ Table_len(self.data.cols) = 2
    /\ self.catalogname = <<"image", ".ldac">>
    /\ self.origin = "VATT4K;image.fits"
    /\ self.magsys = "instrumental"
    /\ self.obstime = <<"57000.5", "60.0">>

\* the operations that add columns or drop rows
EditOps ==
    {"add_field", "add_fields", "reject_sources_with",
     "reject_sources_other_than"}

\* a step in which one of these operations returns
EditStep ==
    /\ ret'["this"].op \in EditOps
    /\ ret'["this"].raised = "none"
    /\ cat'["this"] # cat["this"]

\* C19 as the code has it: add_field, add_fields, reject_sources_with and
\* reject_sources_other_than leave the history of the catalog as it was.
C19_HistoryKept ==
    [][EditStep => cat'["this"].history = cat["this"].history]_vars

\* C19: a catalog that reject_sources_with has taken rows from, with the
\* download as the only entry of its history
C19_Witness ==
    /\ ret["this"].op = "reject_sources_with"
    /\ ret["this"].raised = "none"
    /\ ret["this"].value > 0
    /\ Len(self.history) = 1
    /\ self.history[1].what = "downloaded"
    /\ self.history[1].n = Table_len(self.data.cols) + ret["this"].value

\* C19 as stated: after add_field, add_fields, reject_sources_with or
\* reject_sources_other_than the previous history is a proper prefix of the
\* new history.
C19_AsWritten ==
    [][EditStep =>
          /\ Len(cat'["this"].history) > Len(cat["this"].history)
          /\ SubSeq(cat'["this"].history, 1, Len(cat["this"].history))
                = cat["this"].history]_vars

\* a call of op that returned a table of sources
Completed(o, op) ==
    /\ ret[o].op = op
    /\ ret[o].raised = "none"
    /\ ~ret[o].isNone
    /\ cat[o].data.present

\* the ra.deg of the table are all non-negative
RaNonNegative(c) ==
    \A k \in DOMAIN AllRows(c) : V(c, "ra.deg", k) >= 0

\* the values of a column of the file in the rows read_ldac keeps
KeptValues(file, name, maxflag) ==
    LET vals == getcol(file.cols, name).vals
        keep == [k \in DOMAIN vals |->
                    maxflag = <<>>
                    \/ getcol(file.cols, "FLAGS").vals[k] <= maxflag[1]]
        idc  == np_where(keep)
    IN  [j \in 1..Len(idc) |-> vals[idc[j]]]

LackingImages ==
    {image \in Images :
        image.present /\ image.header # {"MIDTIMJD", "EXPTIME", "OBJECT"}}

\* C22: read_ldac of a file with sources and an image header that lacks one
\* of the keywords for time, exposure time and object still loads the
\* table, renames the coordinate columns to ra.deg and dec.deg and leaves
\* no ra.deg below 0.
C22_BaseRead ==
    ret["this"] = NoCall =>
        \A file \in LdacFiles \ ShortFiles, image \in LackingImages,
           maxflag \in Maxflags :
            LET r == read_ldac(self, file, image, maxflag)
            IN  /\ r.obj.data.present
                /\ HasCols(r.obj, {"ra.deg", "dec.deg"})
                /\ RaNonNegative(r.obj)

\* the canonical columns write_ldac maps
MappedNames == {"ra.deg", "dec.deg", "e_ra.deg", "e_dec.deg", "mag"}

\* the other object has read the file that write_ldac wrote from this one,
\* a catalog without negative right ascensions
ReadBackWritten ==
    /\ self.data.present
    /\ RaNonNegative(self)
    /\ disk = write_ldac(self, self.catalogname \o <<".cat">>).disk
    /\ peer.catalogname = disk.file.filename
    /\ Completed("other", "read_ldac")

\* C23: write_ldac followed by read_ldac reproduces the row count and, for
\* each of ra.deg, dec.deg, e_ra.deg, e_dec.deg and mag that the catalog
\* has, a column of the same name with the same values row for row.
C23_LdacRoundTrip ==
    ReadBackWritten =>
        /\ Table_len(peer.data.cols) = Table_len(self.data.cols)
        /\ \A name \in MappedNames \cap colnames(self.data.cols) :
              /\ name \in colnames(peer.data.cols)
              /\ getcol(peer.data.cols, name).vals
                    = getcol(self.data.cols, name).vals
              /\ getcol(peer.data.cols, name).dtype
                    = getcol(self.data.cols, name).dtype

\* write_database has been called on a catalog with sources
WriteCalled ==
    /\ ret["this"].op = "write_database"
    /\ self.data.present
    /\ Table_len(self.data.cols) > 0

\* a value that single precision holds as double precision does: not a
\* number, or a multiple of 0.25 (magnitudes are in 0.01 mag, the other
\* columns hold whole numbers)
single_exact(name, v) == name # "MAG" \/ v = NaN \/ v % 25 = 0

\* a column read back holds the values of the column written exactly
Exactly(written, back) ==
    /\ back.vals = written.vals
    /\ \/ back.dtype = written.dtype
       \/ /\ written.dtype \in {"float32", "float64"}
          /\ back.dtype \in {"float32", "float64"}
          /\ \A k \in DOMAIN written.vals :
                single_exact(written.name, written.vals[k])

\* C24: for a catalog with float64, int64 or text columns write_database
\* followed by read_database reproduces the row count, the column names and
\* the values of those columns exactly.
C24_DbRoundTrip ==
    WriteCalled =>
        /\ ret["this"].raised = "none"
        /\ LET r == read_database(peer, disk)
               n == Len(self.data.cols)
           IN  /\ r.out.raised = "none"
               /\ Table_len(r.obj.data.cols) = Table_len(self.data.cols)
               /\ Len(r.obj.data.cols) = n
               /\ \A i \in 1..n :
                     /\ r.obj.data.cols[i].name = self.data.cols[i].name
                     /\ self.data.cols[i].dtype
                            \in {"float64", "int64", "bytes"}
                        => Exactly(self.data.cols[i], r.obj.data.cols[i])

\* C25: write_database declares every float column REAL, every integer
\* column (64-bit ones included) INTEGER and every text column TEXT, and
\* inserts a row for every row of the catalog, for any mix of these types.
C25_Schema ==
    WriteCalled =>
        /\ ret["this"].raised = "none"
        /\ disk.kind = "db"
        /\ Len(disk.cols) = Len(self.data.cols)
        /\ \A i \in 1..Len(self.data.cols) :
              /\ disk.cols[i].decl =
                    CASE self.data.cols[i].dtype \in {"float32", "float64"}
                           -> "REAL"
                      [] self.data.cols[i].dtype \in {"int16", "int32", "int64"}
                           -> "INTEGER"
                      [] OTHER -> "TEXT"
              /\ Len(disk.cols[i].vals) = Table_len(self.data.cols)

\* the columns of the file whose first row holds NULL
NullFirst(file) ==
    {i \in 1..Len(file.cols) : is_null(file.cols[i], 1)}

\* C26: read_database takes the type of each column from the value stored
\* in the first row of the data table only (no type for NULL: KeyError)
\* and converts every value of the column with that type.
C26_FirstRowTypes ==
    disk.kind = "db" =>
        LET r == read_database(peer, disk)
        IN  IF NullFirst(disk) # {}
            THEN r.out.raised = "KeyError" /\ r.obj.data = peer.data
            ELSE /\ r.out.raised = "none"
                 /\ \A i \in 1..Len(disk.cols) :
                       LET col == r.obj.data.cols[i]
                           is_float == disk.cols[i].decl = "REAL"
                       IN  /\ col.dtype = IF is_float THEN "float32"
                                          ELSE "int16"
                           /\ \A k \in DOMAIN col.vals :
                                 col.vals[k] =
                                    IF is_float THEN disk.cols[i].vals[k]
                                    ELSE int16_of(disk.cols[i].vals[k])

\* the other object has read a database whose first row holds numbers and
\* whose second row holds NULL
C26_Witness ==
    /\ disk.kind = "db"
    /\ NullFirst(disk) = {}
    /\ \E i \in 1..Len(disk.cols) :
          \E k \in DOMAIN disk.cols[i].vals : k > 1 /\ is_null(disk.cols[i], k)
    /\ Completed("other", "read_database")
    /\ peer.data.cols = read_database(catalog(<<"mycat">>), disk).obj.data.cols

\* C27: write_database returns the number of rows of the catalog, also when
\* the first column holds duplicate values.
C27_SourcesWritten ==
    (WriteCalled /\ ret["this"].raised = "none")
        => ret["this"].value = Table_len(self.data.cols)

\* C28: a catalog that read_ldac has filled, download_catalog never having
\* been called on the object, can be passed to transform_filters for every
\* band: no call fails for want of an attribute that only download_catalog
\* or an earlier transformation sets.
C28_ReadThenTransform ==
    (Completed("other", "read_ldac") /\ peer.magsystem = Unset) =>
        \A targetfilter \in Bands :
            \A r \in TransformOutcomes(peer, targetfilter) :
                r.out.raised # "AttributeError"

\* the columns of the four PS1 bands and their errors
PS1Cols ==
    {"gp1mag", "e_gp1mag", "rp1mag", "e_rp1mag", "ip1mag", "e_ip1mag",
     "zp1mag", "e_zp1mag"}

\* C29: on a PANSTARRS catalog with the g, r, i and z PS1 columns
\* transform_filters to g, r, i or z raises nothing, returns the number of
\* rows, adds _gmag, _rmag, _imag, _zmag with their errors and marks the
\* name as transformed.
C29_PanstarrsGriz ==
    \A targetfilter \in {"g", "r", "i", "z"} :
        (/\ self.data.present
         /\ Table_len(self.data.cols) > 0
         /\ InName("PANSTARRS", self.catalogname)
         /\ HasCols(self, PS1Cols)
         /\ ~HasCols(self, {"_" \o targetfilter \o "mag"}))
        => \A r \in TransformOutcomes(self, targetfilter) :
              /\ r.out.raised = "none"
              /\ r.out.value = Table_len(self.data.cols)
              /\ HasCols(r.obj, {"_gmag", "_e_gmag", "_rmag", "_e_rmag",
                                 "_imag", "_e_imag", "_zmag", "_e_zmag"})
              /\ InName("_transformed", r.obj.catalogname)

\* C30: on a catalog whose name contains SDSS and whose magnitude system is
\* AB transform_filters to Z_UKIRT adds _Zmag and _e_Zmag and returns the
\* number of rows.
C30_SdssUkirtZ ==
    (/\ self.data.present
     /\ Table_len(self.data.cols) > 0
     /\ InName("SDSS", self.catalogname)
     /\ self.magsystem = "AB"
     /\ HasCols(self, {"zmag", "imag", "e_zmag"}))
    => \A r \in TransformOutcomes(self, "Z_UKIRT") :
          /\ r.out.raised = "none"
          /\ HasCols(r.obj, {"_Zmag", "_e_Zmag"})
          /\ r.out.value = Table_len(self.data.cols)

====
